---- MODULE Spec2Model ----
(***************************************************************************)
(* The document-structure extraction engine of Crawl_data_tool: the four   *)
(* profile parsers of src/parsers (HierarchicalParser, DecisionParser,     *)
(* DirectiveParser, PlanParser) as one state machine that processes the    *)
(* extracted lines of a document one at a time.                            *)
(*                                                                         *)
(* Text is a sequence of characters.  An ASCII character is the string of  *)
(* that character; a Vietnamese letter is written in Telex ("DD" is the    *)
(* capital D with stroke, "eef" the e with circumflex and grave, "uw" the  *)
(* horned u, ...), the no-break space is "NBSP", tab "TAB", carriage       *)
(* return "CR", line feed "LF" and the backslash "BSLASH".                 *)
(*                                                                         *)
(* Further components: get_parser, the batch enrichment, the discovery by  *)
(* date chunk, the duplicate filter, the extraction of the lines of a      *)
(* content container (find_all and get_text) and generate_weekly_chunks.   *)
(***************************************************************************)
EXTENDS Integers, Sequences, FiniteSets, TLC

\* ----------------------------------------------------------------- state

VARIABLES
    doc_type,    \* the class of the parser: its profile
    html_empty,  \* html_content is the empty string
    doc_title,   \* the title argument of parse
    pc,          \* "call": parse not yet called; "loop"; "done"; "raised"
    locals,      \* the locals of parse: nodes, stack, metadata, attachments, flags
    trace,       \* per element processed: its index in the catalogue and what the pass did
    history,     \* the locals at the start of the loop and after each pass
    result,      \* what parse returned
    runs,        \* the number of earlier calls of parse on this input
    first,       \* trace, history and result of the first call, once a second has begun
    \* two calls of parse in two threads
    frames,      \* per call: its parser class, its elements, its locals, its result
    patterns,    \* the keys of BaseParser.PATTERNS, the class attribute all calls read
    \* get_parser
    selection,   \* the calls of get_parser so far: doc_type and the class returned
    \* the batch enrichment (run_enrichment.py)
    jsonl,       \* the output JSONL: one record per line
    batch,       \* the run of main: its position, its locals
    \* the discovery by date chunk (discover_new_documents.py)
    week_ckpt,   \* the week checkpoint file: completed_weeks
    found,       \* the JSONL of processed documents, and what the site lists
    discover,    \* the run of run_discover: its position, its locals
    \* _is_duplicate
    dup,         \* the two nodes given to _is_duplicate and its answer
    \* the extraction of the lines of a page
    extraction,  \* the elements of the content container and the lines made of them
    \* generate_weekly_chunks
    chunking     \* the locals of a call of generate_weekly_chunks

parse_vars == <<doc_type, html_empty, doc_title, pc, locals, trace, history, result, runs, first>>
pair_vars == <<frames, patterns>>
select_vars == <<selection>>
enrich_vars == <<jsonl, batch>>
discover_vars == <<week_ckpt, found, discover>>
dup_vars == <<dup>>
extract_vars == <<extraction>>
chunk_vars == <<chunking>>

vars == <<parse_vars, pair_vars, select_vars, enrich_vars, discover_vars, dup_vars,
          extract_vars, chunk_vars>>

\* A component that is not running: no call, no file, no run.
PairIdle == frames = <<>> /\ patterns = {}
SelectIdle == selection = <<>>
EnrichIdle == jsonl = <<>> /\ batch = [pc |-> "idle"]
DiscoverIdle == week_ckpt = {} /\ found = <<>> /\ discover = [pc |-> "idle"]
DupIdle == dup = <<>>
ExtractIdle == extraction = <<>>
ChunkIdle == chunking = <<>>

\* ------------------------------------------------------------------ text

Digits == {"0", "1", "2", "3", "4", "5", "6", "7", "8", "9"}

AsciiLower ==
    {"a", "b", "c", "d", "e", "f", "g", "h", "i", "j", "k", "l", "m",
     "n", "o", "p", "q", "r", "s", "t", "u", "v", "w", "x", "y", "z"}

\* <<upper, lower>> for every cased character of the alphabet.
CasePairs ==
    {<<"A", "a">>, <<"B", "b">>, <<"C", "c">>, <<"D", "d">>, <<"E", "e">>,
     <<"F", "f">>, <<"G", "g">>, <<"H", "h">>, <<"I", "i">>, <<"J", "j">>,
     <<"K", "k">>, <<"L", "l">>, <<"M", "m">>, <<"N", "n">>, <<"O", "o">>,
     <<"P", "p">>, <<"Q", "q">>, <<"R", "r">>, <<"S", "s">>, <<"T", "t">>,
     <<"U", "u">>, <<"V", "v">>, <<"W", "w">>, <<"X", "x">>, <<"Y", "y">>,
     <<"Z", "z">>,
     <<"AS", "as">>, <<"AWJ", "awj">>, <<"AJ", "aj">>, <<"AAJ", "aaj">>,
     <<"AAF", "aaf">>, <<"AAX", "aax">>, <<"DD", "dd">>, <<"EE", "ee">>,
     <<"EEF", "eef">>, <<"IS", "is">>, <<"IJ", "ij">>, <<"OW", "ow">>,
     <<"OWS", "ows">>, <<"OWR", "owr">>, <<"OOS", "oos">>, <<"OOJ", "ooj">>,
     <<"OOR", "oor">>, <<"UW", "uw">>, <<"UWS", "uws">>, <<"UWR", "uwr">>,
     <<"UJ", "uj">>, <<"UR", "ur">>, <<"YS", "ys">>, <<"OO", "oo">>,
     <<"AF", "af">>, <<"AW", "aw">>}

UpperChars == {p[1] : p \in CasePairs}

LowerOf == [c \in UpperChars |-> (CHOOSE p \in CasePairs : p[1] = c)[2]]

\* str.isupper() of one character
IsUpper(c) == c \in UpperChars

\* what \s matches, and what str.strip() strips
IsSpace(c) == c \in {" ", "NBSP", "TAB", "CR", "LF"}

\* str.lower()
LowerChar(c) == IF c \in UpperChars THEN LowerOf[c] ELSE c

Lower(s) == [i \in 1..Len(s) |-> LowerChar(s[i])]

\* str.startswith(p)
StartsWith(s, p) == Len(p) <= Len(s) /\ SubSeq(s, 1, Len(p)) = p

\* str.endswith(p)
EndsWith(s, p) == Len(p) <= Len(s) /\ SubSeq(s, Len(s) - Len(p) + 1, Len(s)) = p

\* p occurs in s at position i
OccursAt(s, i, p) == i + Len(p) - 1 <= Len(s) /\ SubSeq(s, i, i + Len(p) - 1) = p

\* the first position from i on that holds no whitespace (Len(s) + 1 if none)
RECURSIVE SkipWs(_, _)
SkipWs(s, i) ==
    IF i <= Len(s) /\ IsSpace(s[i]) THEN SkipWs(s, i + 1) ELSE i

\* the first position from i on that holds no character of the set cs
RECURSIVE SkipSet(_, _, _)
SkipSet(s, i, cs) ==
    IF i <= Len(s) /\ s[i] \in cs THEN SkipSet(s, i + 1, cs) ELSE i

\* str.strip()
RECURSIVE RStrip(_)
RStrip(s) ==
    IF s # <<>> /\ IsSpace(s[Len(s)]) THEN RStrip(SubSeq(s, 1, Len(s) - 1)) ELSE s

Strip(s) == LET t == RStrip(s) IN SubSeq(t, SkipWs(t, 1), Len(t))

\* str.rstrip('.')
RECURSIVE RStripDots(_)
RStripDots(s) ==
    IF s # <<>> /\ s[Len(s)] = "." THEN RStripDots(SubSeq(s, 1, Len(s) - 1)) ELSE s

\* re.sub(r'\s+', ' ', s): every run of whitespace becomes one space
CollapseWs(s) ==
    LET kept == SelectSeq([i \in 1..Len(s) |-> i],
                          LAMBDA i : ~IsSpace(s[i]) \/ i = 1 \/ ~IsSpace(s[i - 1]))
    IN  [k \in 1..Len(kept) |-> IF IsSpace(s[kept[k]]) THEN " " ELSE s[kept[k]]]

\* BaseParser.clean_text
clean_text(text) ==
    IF text = <<>> THEN <<>>
    ELSE LET nbsp == [i \in 1..Len(text) |-> IF text[i] = "NBSP" THEN " " ELSE text[i]]
             nocr == SelectSeq(nbsp, LAMBDA c : c # "CR")
         IN  Strip(CollapseWs(nocr))

\* --------------------------------------------------------------- PATTERNS
\* Each pattern is used with re.match, on a text clean_text has normalised.
\* The IGNORECASE patterns are matched on the lower-cased text.

kw_phan == <<"p", "h", "aaf", "n">>
kw_thu == <<"t", "h", "uws">>
kw_chuong == <<"c", "h", "uw", "ow", "n", "g">>
kw_muc == <<"m", "uj", "c">>
kw_dieu == <<"dd", "i", "eef", "u">>
kw_phu_luc == <<"p", "h", "uj", " ", "l", "uj", "c">>
kw_mau_so == <<"m", "aax", "u", " ", "s", "oos">>
kw_noi_nhan == <<"n", "ow", "i", " ", "n", "h", "aaj", "n">>
kw_noi_gui == <<"n", "ow", "i", " ", "g", "uwr", "i">>

Roman == {"i", "v", "x"}

\* the lower-cased alternatives of the signature pattern
SignatureMarkers ==
    {<<"t", "m", ".">>, <<"k", "t", ".">>, <<"t", "l", ".">>, <<"p", "p", ".">>,
     <<"c", "h", "ur", " ", "t", "ij", "c", "h">>,
     <<"t", "h", "ur", " ", "t", "uw", "ows", "n", "g">>,
     <<"b", "ooj", " ", "t", "r", "uw", "owr", "n", "g">>,
     <<"t", "h", "oos", "n", "g", " ", "dd", "oos", "c">>,
     <<"g", "i", "as", "m", " ", "dd", "oos", "c">>,
     <<"t", "oor", "n", "g", " ", "g", "i", "as", "m", " ", "dd", "oos", "c">>,
     <<"q", "u", "y", "eef", "n">>,
     <<"k", "ys", " ", "t", "h", "a", "y">>,
     <<"t", "h", "a", "y", " ", "m", "awj", "t">>}

\* Walking back from position r over whitespace: a '.', ':' or line feed
\* is met before any other character.
RECURSIVE AfterStop(_, _)
AfterStop(s, r) ==
    IF r < 1 THEN FALSE
    ELSE IF s[r] \in {".", ":", "LF"} THEN TRUE
    ELSE IF IsSpace(s[r]) THEN AfterStop(s, r - 1)
    ELSE FALSE

\* (?:^|.*[\.\:\n]\s*): position p is the start of the text, or follows a
\* '.', ':' or line feed and any whitespace after it
HeaderStart(s, p) == p = 1 \/ AfterStop(s, p - 1)

\* kw \s+ cs+ at position p
KwThen(s, p, kw, cs) ==
    /\ OccursAt(s, p, kw)
    /\ LET a == p + Len(kw)
           b == SkipWs(s, a)
       IN  a <= Len(s) /\ IsSpace(s[a]) /\ b <= Len(s) /\ s[b] \in cs

\* PATTERNS['part']
MatchPart(text) ==
    LET s == Lower(text) IN
    \E p \in 1..Len(s) :
       /\ HeaderStart(s, p)
       /\ \/ KwThen(s, p, kw_phan, Roman)
          \/ /\ OccursAt(s, p, kw_phan)
             /\ LET a == p + Len(kw_phan)
                    b == SkipWs(s, a)
                IN  a <= Len(s) /\ IsSpace(s[a]) /\ KwThen(s, b, kw_thu, Roman)
          \/ KwThen(s, p, kw_phan, AsciiLower)

\* PATTERNS['chapter']
MatchChapter(text) ==
    LET s == Lower(text) IN
    \E p \in 1..Len(s) :
       /\ HeaderStart(s, p)
       /\ \/ KwThen(s, p, kw_chuong, Roman \cup Digits)
          \/ LET d == SkipSet(s, p, Roman)
             IN  /\ d > p
                 /\ d + 1 <= Len(s)
                 /\ s[d] = "."
                 /\ IsSpace(s[d + 1])

\* PATTERNS['section']
MatchSection(text) ==
    LET s == Lower(text) IN
    \E p \in 1..Len(s) : HeaderStart(s, p) /\ KwThen(s, p, kw_muc, Digits)

\* PATTERNS['article']
MatchArticle(text) ==
    LET s == Lower(text) IN KwThen(s, SkipWs(s, 1), kw_dieu, Digits)

\* PATTERNS['point']
MatchPoint(text) ==
    LET s == Lower(text)
        i == SkipWs(s, 1)
    IN  /\ i + 2 <= Len(s)
        /\ s[i] \in AsciiLower \cup {"dd"}
        /\ s[i + 1] \in {")", "BSLASH", "."}
        /\ IsSpace(s[i + 2])

\* PATTERNS['appendix']
MatchAppendix(text) ==
    LET s == Lower(text)
        i == SkipWs(s, 1)
    IN  \E kw \in {kw_phu_luc, kw_mau_so} :
           /\ OccursAt(s, i, kw)
           /\ i + Len(kw) <= Len(s)
           /\ IsSpace(s[i + Len(kw)])

\* PATTERNS['recipients']
MatchRecipients(text) ==
    LET s == Lower(text)
        i == SkipWs(s, 1)
    IN  \E kw \in {kw_noi_nhan, kw_noi_gui} :
           /\ OccursAt(s, i, kw)
           /\ i + Len(kw) <= Len(s)
           /\ s[i + Len(kw)] \in {":", ";"}

\* PATTERNS['signature']
MatchSignature(text) ==
    LET s == Lower(text)
        i == SkipWs(s, 1)
    IN  \E kw \in SignatureMarkers : OccursAt(s, i, kw)

\* the end of (\d+(\.\d+)*) starting at position i: one past the number
RECURSIVE NumberEnd(_, _)
NumberEnd(s, i) ==
    LET d == SkipSet(s, i, Digits) IN
    IF d + 1 <= Len(s) /\ s[d] = "." /\ s[d + 1] \in Digits
    THEN NumberEnd(s, d + 1)
    ELSE d

\* PATTERNS['loose_numbering']: [ok, number = group(1), content = group(3)]
MatchLoose(text) ==
    LET i == SkipWs(text, 1)
        e == IF i <= Len(text) /\ text[i] \in Digits THEN NumberEnd(text, i) ELSE i
        f == IF e <= Len(text) /\ text[e] = "." THEN e + 1 ELSE e
        g == SkipWs(text, f)
    IN  IF e > i /\ f <= Len(text) /\ IsSpace(text[f])
        THEN [ok |-> TRUE, number |-> SubSeq(text, i, e - 1),
              content |-> SubSeq(text, g, Len(text))]
        ELSE [ok |-> FALSE, number |-> <<>>, content |-> <<>>]

\* PlanParser.ROMAN_SECTION: [ok, roman = group(1), title = group(2)]
MatchRoman(text) ==
    LET s == Lower(text)
        i == SkipWs(s, 1)
        d == SkipSet(s, i, Roman)
    IN  IF d > i /\ d <= Len(s) /\ s[d] = "."
        THEN [ok |-> TRUE, roman |-> SubSeq(text, i, d - 1),
              title |-> SubSeq(text, SkipWs(text, d + 1), Len(text))]
        ELSE [ok |-> FALSE, roman |-> <<>>, title |-> <<>>]

\* ---------------------------------------------------- the reference filter

\* len(text) > 300
LongLine == 300

\* p occurs in s
Contains(s, p) == \E i \in 1..Len(s) : OccursAt(s, i, p)

\* (chuong|dieu)\s+\d+[\,\;]\s*(chuong|dieu) occurs in s
ListsProvisions(s) ==
    \E i \in 1..Len(s) : \E kw \in {kw_chuong, kw_dieu} :
       /\ OccursAt(s, i, kw)
       /\ LET b == i + Len(kw)
              d == SkipWs(s, b)
              e == SkipSet(s, d, Digits)
          IN  /\ d > b
              /\ e > d
              /\ e <= Len(s)
              /\ s[e] \in {",", ";"}
              /\ \E kw2 \in {kw_chuong, kw_dieu} : OccursAt(s, SkipWs(s, e + 1), kw2)

\* is_reference_line: a line that cites a provision instead of heading one
is_reference_line(text) ==
    LET s == Lower(text) IN
    \/ Len(text) > LongLine
    \/ \E tail \in {<<"t", "h", "oo", "n", "g", " ", "t", "uw", " ", "n", "af", "y">>,
                    <<"n", "g", "h", "ij", " ", "dd", "ij", "n", "h", " ", "n", "af", "y">>,
                    <<"l", "u", "aaj", "t", " ", "n", "af", "y">>} : EndsWith(s, tail)
    \/ ListsProvisions(s)
    \/ \E ind \in {<<"q", "u", "y", " ", "dd", "ij", "n", "h", " ", "t", "aj", "i">>,
                   <<"c", "aw", "n", " ", "c", "uws">>,
                   <<"t", "aj", "i", " ">> \o kw_chuong,
                   <<"c", "ur", "a", " ">> \o kw_chuong,
                   <<"t", "aj", "i", " ">> \o kw_dieu,
                   <<"c", "ur", "a", " ">> \o kw_dieu} : Contains(s, ind)


\* ----------------------------------------------------------------- bounds

\* the most elements processed in one parse
MaxLines == 3

\* the thresholds of the metadata and appendix heuristics
ShortLine == 100
ShortSignerH == 50
ShortSigner == 60

\* -------------------------------------------------------------- the input

\* The profiles: the parser classes of src/parsers.
Profiles == {"Hierarchical", "Decision", "Directive", "Plan"}

DocTitle == <<"T">>

\* no anchor: html_id is None (or the empty name, which is as falsy)
NoAnchor == <<>>

\* An element the parsers select: the text of el.get_text(separator=" ",
\* strip=True), whether is_bold(el), and the name of the first <a name=...>
\* inside it, cut at its underscores ("dieu_5" is <<"dieu", "_", "5">>).
El(text, bold, name) == [text |-> text, is_bold |-> bold, name |-> name]

Filler(n) == [i \in 1..n |-> "o"]

\* The elements a document is made of.
Catalogue ==
   <<
      \* 1: an element without text
      El(<<>>,
         FALSE, NoAnchor),
      \* 2: "CHUONG I", bold
      El(<<"C", "H", "UW", "OW", "N", "G", " ", "I">>,
         TRUE, NoAnchor),
      \* 3: "Dieu 1. ABC"
      El(<<"DD", "i", "eef", "u", " ", "1", ".", " ", "A", "B", "C">>,
         FALSE, NoAnchor),
      \* 4: "1. xyz", with a no-break space and a space after the number
      El(<<"1", ".", "NBSP", " ", "x", "y", "z">>,
         FALSE, NoAnchor),
      \* 5: "a) foo"
      El(<<"a", ")", " ", "f", "o", "o">>,
         FALSE, NoAnchor),
      \* 6: "Noi nhan:"
      El(<<"N", "ow", "i", " ", "n", "h", "aaj", "n", ":">>,
         FALSE, NoAnchor),
      \* 7: "- Nhu tren;"
      El(<<"-", " ", "N", "h", "uw", " ", "t", "r", "ee", "n", ";">>,
         FALSE, NoAnchor),
      \* 8: "TM. CHINH PHU", bold
      El(<<"T", "M", ".", " ", "C", "H", "IS", "N", "H", " ", "P", "H", "UR">>,
         TRUE, NoAnchor),
      \* 9: "Phu luc I", bold
      El(<<"P", "h", "uj", " ", "l", "uj", "c", " ", "I">>,
         TRUE, NoAnchor),
      \* 10: "abc"
      El(<<"a", "b", "c">>,
         FALSE, NoAnchor),
      \* 11: "1.1 abc"
      El(<<"1", ".", "1", " ", "a", "b", "c">>,
         FALSE, NoAnchor),
      \* 12: "I. Foo", bold
      El(<<"I", ".", " ", "F", "o", "o">>,
         TRUE, NoAnchor),
      \* 13: "CHUONG I", bold, <a name="chuong_1">
      El(<<"C", "H", "UW", "OW", "N", "G", " ", "I">>,
         TRUE, <<"chuong", "_", "1">>),
      \* 14: "Dieu 5", <a name="khoan_5">
      El(<<"DD", "i", "eef", "u", " ", "5">>,
         FALSE, <<"khoan", "_", "5">>),
      \* 15: "Dieu 1. ABC", <a name="dieu_1_name">
      El(<<"DD", "i", "eef", "u", " ", "1", ".", " ", "A", "B", "C">>,
         FALSE, <<"dieu", "_", "1", "_", "name">>),
      \* 16: "Chuong I", not bold
      El(<<"C", "h", "uw", "ow", "n", "g", " ", "I">>,
         FALSE, NoAnchor),
      \* 17: "Dieu 5. Quy dinh chung", bold, <a name="dieu_5">
      El(<<"DD", "i", "eef", "u", " ", "5", ".", " ", "Q", "u", "y", " ",
           "dd", "ij", "n", "h", " ", "c", "h", "u", "n", "g">>,
         TRUE, <<"dieu", "_", "5">>),
      \* 18: "TL. ooo...", a signature line of ShortLine + 4 characters, not bold
      El(<<"T", "L", ".", " ">> \o Filler(ShortLine),
         FALSE, NoAnchor),
      \* 19: "Dieu 1", <a name="dieu_1">
      El(<<"DD", "i", "eef", "u", " ", "1">>,
         FALSE, <<"dieu", "_", "1">>),
      \* 20: "I. Foo", not bold
      El(<<"I", ".", " ", "F", "o", "o">>,
         FALSE, NoAnchor),
      \* 21: "Phu luc I tai Dieu 5", <b>: an appendix header that cites an article
      El(<<"P", "h", "uj", " ", "l", "uj", "c", " ", "I", " ", "t", "aj", "i", " ",
           "DD", "i", "eef", "u", " ", "5">>,
         TRUE, NoAnchor),
      \* 22: "abc. Noi nhan:", <b>: the recipients marker after body text
      El(<<"a", "b", "c", ".", " ", "N", "ow", "i", " ", "n", "h", "aaj", "n", ":">>,
         TRUE, NoAnchor)
   >>

\* BaseParser.detect_anchor_type
detect_anchor_type(html_id) ==
    IF html_id = <<>> THEN "None"
    ELSE IF EndsWith(html_id, <<"_", "name">>) THEN "None"
    ELSE IF StartsWith(html_id, <<"dieu", "_">>) THEN "article"
    ELSE IF StartsWith(html_id, <<"chuong", "_">>) THEN "chapter"
    ELSE IF StartsWith(html_id, <<"phan", "_">>) THEN "part"
    ELSE IF StartsWith(html_id, <<"muc", "_">>) THEN "section"
    ELSE IF StartsWith(html_id, <<"khoan", "_">>) THEN "clause"
    ELSE "None"

\* The head of the loop body: text, is_bold, html_id and anchor_type of the
\* element, with what each pattern of PATTERNS says of the text.
Extract(el) ==
    LET text == clean_text(el.text) IN
    [text |-> text,
     is_bold |-> el.is_bold,
     html_id |-> el.name,
     anchor_type |-> detect_anchor_type(el.name),
     part |-> MatchPart(text),
     chapter |-> MatchChapter(text),
     section |-> MatchSection(text),
     article |-> MatchArticle(text),
     point |-> MatchPoint(text),
     appendix |-> MatchAppendix(text),
     recipients |-> MatchRecipients(text),
     signature |-> MatchSignature(text),
     loose |-> MatchLoose(text),
     roman |-> MatchRoman(text)]

\* Every element of the catalogue, extracted.
Lines == [i \in DOMAIN Catalogue |-> Extract(Catalogue[i])]

\* ------------------------------------------------------------- LegalNode

\* LegalNode(level, type, title, html_id=None): content and children are
\* fresh empty lists (field(default_factory=list)).
LegalNode(level, type, title, html_id) ==
    [level |-> level, type |-> type, title |-> title, content |-> <<>>,
     children |-> <<>>, html_id |-> html_id]

\* LegalNode.add_text
add_text(node, text) ==
    IF Strip(text) # <<>>
    THEN [node EXCEPT !.content = Append(@, Strip(text))]
    ELSE node

\* no matched_node
NoNode == LegalNode(0, "None", <<>>, NoAnchor)

\* ------------------------------------------------- the locals of parse()
\* nodes is the heap of LegalNode objects, a node's identity is its index
\* (the root is 1); children and stack hold identities.

\* the root is the first LegalNode parse makes
Root == 1

\* ParseStart as it would be with the metadata holder kept between calls
\* (a class attribute instead of a local)
ParseStartShared ==
    [nodes |-> <<LegalNode(0, "document", doc_title, NoAnchor)>>,
     stack |-> <<Root>>,
     metadata |-> locals.metadata,
     attachments |-> <<>>,
     is_parsing_appendices |-> FALSE,
     is_parsing_metadata |-> FALSE]

\* root, stack, metadata, attachments and the state flags as parse sets
\* them up before its loop
ParseStart ==
    [nodes |-> <<LegalNode(0, "document", doc_title, NoAnchor)>>,
     stack |-> <<Root>>,
     metadata |-> [recipients |-> <<>>, signers |-> <<>>],
     attachments |-> <<>>,
     is_parsing_appendices |-> FALSE,
     is_parsing_metadata |-> FALSE]

\* stack[-1]
Top(stack) == stack[Len(stack)]

\* What one pass of the loop body did: kind says where the line went, node
\* is the node it made, merged into or was appended to (0: none), cand is
\* matched_node (NoNode: none), raised says the pass raised an exception.
Out(st, kind, node, cand) ==
    [st |-> st, kind |-> kind, node |-> node, cand |-> cand, raised |-> FALSE]

\* IndexError
Raise(st) == [st |-> st, kind |-> "raised", node |-> 0, cand |-> NoNode, raised |-> TRUE]

\* SkipElement as it would be without the check for an empty text
SkipElementNever(text) == FALSE

\* if not text: continue
SkipElement(text) == text = <<>>

\* metadata['recipients'].append(text), is_parsing_metadata = True
ToRecipients(st, text) ==
    [st EXCEPT !.is_parsing_metadata = TRUE,
               !.metadata.recipients = Append(@, text)]

\* metadata['signers'].append(text), is_parsing_metadata = True
ToSigners(st, text) ==
    [st EXCEPT !.is_parsing_metadata = TRUE,
               !.metadata.signers = Append(@, text)]

\* PopTo as it would be with > for >=: an open node of the level of
\* matched_node stays on the stack
RECURSIVE PopToStrict(_, _, _)
PopToStrict(nodes, stack, level) ==
    IF Len(stack) > 1 /\ nodes[stack[Len(stack)]].level > level
    THEN PopToStrict(nodes, SubSeq(stack, 1, Len(stack) - 1), level)
    ELSE stack

\* while len(stack) > 1 and stack[-1].level >= level: stack.pop()
RECURSIVE PopTo(_, _, _)
PopTo(nodes, stack, level) ==
    IF Len(stack) > 1 /\ nodes[Top(stack)].level >= level
    THEN PopTo(nodes, SubSeq(stack, 1, Len(stack) - 1), level)
    ELSE stack

\* stack[-1].add_text(text)
AddTextToTop(st, text) ==
    [st EXCEPT !.nodes[Top(st.stack)] = add_text(@, text)]

\* the else branch of the stack update: the line is plain content
PlainContent(st, text) ==
    Out(AddTextToTop(st, text), "content", Top(st.stack), NoNode)

\* Attach as it would be without the pops: matched_node goes under the
\* node that was open last
AttachNoPop(st, cand) ==
    LET parent == Top(st.stack)
        id == Len(st.nodes) + 1
    IN  Out([st EXCEPT !.nodes = Append([@ EXCEPT ![parent].children = Append(@, id)], cand),
                       !.stack = Append(st.stack, id)],
            "created", id, cand)

\* The stack update of DecisionParser, DirectiveParser and PlanParser:
\* pop to the parent, append matched_node to its children and push it.
Attach(st, cand) ==
    LET stack1 == PopTo(st.nodes, st.stack, cand.level)
        parent == Top(stack1)
        id == Len(st.nodes) + 1
    IN  Out([st EXCEPT !.nodes = Append([@ EXCEPT ![parent].children = Append(@, id)], cand),
                       !.stack = Append(stack1, id)],
            "created", id, cand)

\* IsDuplicate as it would be with a bare prefix test, without the
\* delimiter after the prefix
IsDuplicateBarePrefix(node1, node2) ==
    IF node1.type # node2.type THEN FALSE
    ELSE LET t1 == RStripDots(Lower(clean_text(node1.title)))
             t2 == RStripDots(Lower(clean_text(node2.title)))
         IN  \/ t1 = t2
             \/ StartsWith(t1, t2)
             \/ StartsWith(t2, t1)

\* HierarchicalParser._is_duplicate
IsDuplicate(node1, node2) ==
    IF node1.type # node2.type THEN FALSE
    ELSE LET t1 == RStripDots(Lower(clean_text(node1.title)))
             t2 == RStripDots(Lower(clean_text(node2.title)))
         IN  \/ t1 = t2
             \/ \E d \in {".", " ", ":"} : StartsWith(t1, Append(t2, d))
             \/ \E d \in {".", " ", ":"} : StartsWith(t2, Append(t1, d))

\* Merge as it would be without the extend of the content
MergeDropContent(last_sibling, cand) ==
    [last_sibling EXCEPT
        !.title = IF Len(cand.title) > Len(@) THEN cand.title ELSE @,
        !.html_id = IF @ = NoAnchor /\ cand.html_id # NoAnchor THEN cand.html_id ELSE @]

\* The merge of matched_node into last_sibling
Merge(last_sibling, cand) ==
    [last_sibling EXCEPT
        !.title = IF Len(cand.title) > Len(@) THEN cand.title ELSE @,
        !.content = @ \o cand.content,
        !.html_id = IF @ = NoAnchor /\ cand.html_id # NoAnchor THEN cand.html_id ELSE @]

\* AttachOrMerge as it would be if the merge pushed the sibling on the
\* stack as it was before the pops
AttachOrMergeKeepOpen(st, cand) ==
    LET stack1 == PopTo(st.nodes, st.stack, cand.level)
        parent == Top(stack1)
        kids == st.nodes[parent].children
        last == kids[Len(kids)]
    IN  IF kids # <<>> /\ IsDuplicate(st.nodes[last], cand)
        THEN Out([st EXCEPT !.nodes[last] = Merge(@, cand),
                            !.stack = Append(st.stack, last)],
                 "merged", last, cand)
        ELSE Attach(st, cand)

\* AttachOrMerge as it would be if the merge appended the merged sibling
\* to its parent again
AttachOrMergeReappend(st, cand) ==
    LET stack1 == PopTo(st.nodes, st.stack, cand.level)
        parent == Top(stack1)
        kids == st.nodes[parent].children
        last == kids[Len(kids)]
    IN  IF kids # <<>> /\ IsDuplicate(st.nodes[last], cand)
        THEN Out([st EXCEPT !.nodes = [@ EXCEPT ![last] = Merge(@, cand),
                                                 ![parent].children = Append(@, last)],
                            !.stack = Append(stack1, last)],
                 "merged", last, cand)
        ELSE Attach(st, cand)

\* The stack update of HierarchicalParser, with the duplication check
\* against the last sibling.
AttachOrMerge(st, cand) ==
    LET stack1 == PopTo(st.nodes, st.stack, cand.level)
        parent == Top(stack1)
        kids == st.nodes[parent].children
        last == kids[Len(kids)]
    IN  IF kids # <<>> /\ IsDuplicate(st.nodes[last], cand)
        THEN Out([st EXCEPT !.nodes[last] = Merge(@, cand),
                            !.stack = Append(stack1, last)],
                 "merged", last, cand)
        ELSE Attach(st, cand)

\* metadata['signers'].append(text) while the metadata flag is set
AppendSigner(st, text) == [st EXCEPT !.metadata.signers = Append(@, text)]

\* metadata['recipients'].append(text) while the metadata flag is set
AppendRecipient(st, text) == [st EXCEPT !.metadata.recipients = Append(@, text)]

\* the result of a structural matching: matched_node, or none; pre says
\* the loose-numbering branch has already called stack[-1].add_text(text)
Matched(cand) == [matched |-> TRUE, cand |-> cand, pre |-> FALSE]
Unmatched(pre) == [matched |-> FALSE, cand |-> NoNode, pre |-> pre]

\* Numbered as it would be without the add_text(content)
NumberedNoContent(level, type, loose) ==
    LegalNode(level, type, loose.number, NoAnchor)

\* LegalNode(level, type, number) followed by add_text(content)
Numbered(level, type, loose) ==
    add_text(LegalNode(level, type, loose.number, NoAnchor), loose.content)

\* ----------------------------------------------------- HierarchicalParser

\* HierarchicalMatch as it would be with the patterns tried before the anchor
HierarchicalMatchRegexFirst(st, ln) ==
    LET top == st.nodes[Top(st.stack)] IN
    IF ln.part /\ ln.is_bold THEN Matched(LegalNode(1, "part", ln.text, ln.html_id))
    ELSE IF ln.chapter /\ ln.is_bold THEN Matched(LegalNode(2, "chapter", ln.text, ln.html_id))
    ELSE IF ln.section /\ ln.is_bold THEN Matched(LegalNode(3, "section", ln.text, ln.html_id))
    ELSE IF ln.article THEN Matched(LegalNode(4, "article", ln.text, ln.html_id))
    ELSE IF ln.anchor_type = "part" THEN Matched(LegalNode(1, "part", ln.text, ln.html_id))
    ELSE IF ln.anchor_type = "chapter" THEN Matched(LegalNode(2, "chapter", ln.text, ln.html_id))
    ELSE IF ln.anchor_type = "section" THEN Matched(LegalNode(3, "section", ln.text, ln.html_id))
    ELSE IF ln.anchor_type = "article" THEN Matched(LegalNode(4, "article", ln.text, ln.html_id))
    ELSE IF ln.anchor_type = "clause" THEN Matched(LegalNode(5, "clause", ln.text, ln.html_id))
    ELSE IF ln.loose.ok
         THEN IF top.type \in {"clause", "point", "article"}
              THEN Matched(Numbered(5, "clause", ln.loose))
              ELSE Unmatched(TRUE)
    ELSE IF ln.point THEN Matched(LegalNode(6, "point", ln.text, ln.html_id))
    ELSE Unmatched(FALSE)

\* STRUCTURAL MATCHING of HierarchicalParser.parse
HierarchicalMatch(st, ln) ==
    LET top == st.nodes[Top(st.stack)] IN
    IF ln.anchor_type = "part" THEN Matched(LegalNode(1, "part", ln.text, ln.html_id))
    ELSE IF ln.anchor_type = "chapter" THEN Matched(LegalNode(2, "chapter", ln.text, ln.html_id))
    ELSE IF ln.anchor_type = "section" THEN Matched(LegalNode(3, "section", ln.text, ln.html_id))
    ELSE IF ln.anchor_type = "article" THEN Matched(LegalNode(4, "article", ln.text, ln.html_id))
    ELSE IF ln.anchor_type = "clause" THEN Matched(LegalNode(5, "clause", ln.text, ln.html_id))
    ELSE IF ln.part /\ ln.is_bold THEN Matched(LegalNode(1, "part", ln.text, ln.html_id))
    ELSE IF ln.chapter /\ ln.is_bold THEN Matched(LegalNode(2, "chapter", ln.text, ln.html_id))
    ELSE IF ln.section /\ ln.is_bold THEN Matched(LegalNode(3, "section", ln.text, ln.html_id))
    ELSE IF ln.article THEN Matched(LegalNode(4, "article", ln.text, ln.html_id))
    ELSE IF ln.loose.ok
         THEN IF top.type \in {"clause", "point"} THEN Matched(Numbered(5, "clause", ln.loose))
              ELSE IF top.type = "article" THEN Matched(Numbered(5, "clause", ln.loose))
              ELSE Unmatched(TRUE)
    ELSE IF ln.point THEN Matched(LegalNode(6, "point", ln.text, ln.html_id))
    ELSE Unmatched(FALSE)

\* STRUCTURAL MATCHING and STACK UPDATE WITH DUPLICATION CHECK
HierarchicalStructure(st, ln) ==
    IF st.stack = <<>> THEN Raise(st)
    ELSE LET m == HierarchicalMatch(st, ln) IN
         IF m.matched THEN AttachOrMerge(st, m.cand)
         ELSE PlainContent(IF m.pre THEN AddTextToTop(st, ln.text) ELSE st, ln.text)

\* HierarchicalBody as it would be if no line ended the APPENDIX phase
HierarchicalBodyNoSwitch(st, ln) ==
    IF ln.appendix /\ (ln.is_bold \/ Len(ln.text) < ShortLine)
    THEN Out([st EXCEPT !.is_parsing_appendices = TRUE,
                        !.attachments = Append(@, [title |-> ln.text, content |-> <<>>])],
             "appendix_header", 0, NoNode)
    ELSE IF st.is_parsing_appendices
    THEN IF st.attachments # <<>>
         THEN Out([st EXCEPT !.attachments[Len(st.attachments)].content = Append(@, ln.text)],
                  "appendix_content", 0, NoNode)
         ELSE Out(st, "dropped", 0, NoNode)
    ELSE HierarchicalStructure(st, ln)

\* APPENDIX DETECTION and what follows it
HierarchicalBody(st, ln) ==
    IF ln.appendix /\ (ln.is_bold \/ Len(ln.text) < ShortLine)
    THEN Out([st EXCEPT !.is_parsing_appendices = TRUE,
                        !.attachments = Append(@, [title |-> ln.text, content |-> <<>>])],
             "appendix_header", 0, NoNode)
    ELSE IF st.is_parsing_appendices
    THEN IF ln.recipients \/ ln.signature
         THEN LET st1 == [st EXCEPT !.is_parsing_appendices = FALSE,
                                    !.is_parsing_metadata = TRUE]
              IN  IF ln.recipients
                  THEN Out(AppendRecipient(st1, ln.text), "recipients", 0, NoNode)
                  ELSE Out(AppendSigner(st1, ln.text), "signers", 0, NoNode)
         ELSE IF st.attachments # <<>>
         THEN Out([st EXCEPT !.attachments[Len(st.attachments)].content = Append(@, ln.text)],
                  "appendix_content", 0, NoNode)
         ELSE Out(st, "dropped", 0, NoNode)
    ELSE HierarchicalStructure(st, ln)

\* One pass of the loop of HierarchicalParser.parse
HierarchicalLine(st, ln) ==
    IF SkipElement(ln.text) THEN Out(st, "skip", 0, NoNode)
    ELSE IF ln.recipients THEN Out(ToRecipients(st, ln.text), "recipients", 0, NoNode)
    ELSE IF ln.signature /\ (Len(ln.text) < ShortLine \/ ln.is_bold)
    THEN Out(ToSigners(st, ln.text), "signers", 0, NoNode)
    ELSE IF st.is_parsing_metadata
            /\ ~(\/ ln.anchor_type # "None"
                 \/ ln.part \/ ln.chapter \/ ln.section \/ ln.article \/ ln.appendix)
    THEN IF ln.text = <<>> THEN Raise(st)
         ELSE IF Len(ln.text) < ShortSignerH
                 /\ (IsUpper(ln.text[1]) \/ StartsWith(ln.text, <<"-">>))
         THEN Out(AppendSigner(st, ln.text), "signers", 0, NoNode)
         ELSE IF StartsWith(ln.text, <<"-">>)
         THEN Out(AppendRecipient(st, ln.text), "recipients", 0, NoNode)
         ELSE Out(st, "dropped", 0, NoNode)
    ELSE HierarchicalBody([st EXCEPT !.is_parsing_metadata = FALSE], ln)

\* --------------------------------------------------------- DecisionParser

\* STRUCTURE MATCHING of DecisionParser.parse
DecisionMatch(st, ln) ==
    LET top == st.nodes[Top(st.stack)] IN
    IF ln.anchor_type = "article" THEN Matched(LegalNode(4, "article", ln.text, ln.html_id))
    ELSE IF ln.article THEN Matched(LegalNode(4, "article", ln.text, ln.html_id))
    ELSE IF ln.loose.ok
         THEN IF top.type \in {"article", "clause", "point"}
              THEN Matched(Numbered(5, "clause", ln.loose))
              ELSE Unmatched(TRUE)
    ELSE IF ln.point THEN Matched(LegalNode(6, "point", ln.text, ln.html_id))
    ELSE Unmatched(FALSE)

\* the STACK UPDATE shared by the three flat profiles
FlatStructure(st, ln, m) ==
    IF m.matched THEN Attach(st, m.cand)
    ELSE PlainContent(IF m.pre THEN AddTextToTop(st, ln.text) ELSE st, ln.text)

\* One pass of the loop of DecisionParser.parse
DecisionLine(st, ln) ==
    IF SkipElement(ln.text) THEN Out(st, "skip", 0, NoNode)
    ELSE IF ln.recipients THEN Out(ToRecipients(st, ln.text), "recipients", 0, NoNode)
    ELSE IF ln.signature /\ (Len(ln.text) < ShortLine \/ ln.is_bold)
    THEN Out(ToSigners(st, ln.text), "signers", 0, NoNode)
    ELSE IF st.is_parsing_metadata /\ ~(ln.anchor_type # "None" \/ ln.article)
    THEN IF Len(ln.text) < ShortSigner
         THEN Out(AppendSigner(st, ln.text), "signers", 0, NoNode)
         ELSE Out(st, "dropped", 0, NoNode)
    ELSE IF st.stack = <<>> THEN Raise(st)
    ELSE LET st1 == [st EXCEPT !.is_parsing_metadata = FALSE]
         IN  FlatStructure(st1, ln, DecisionMatch(st1, ln))

\* -------------------------------------------------------- DirectiveParser

\* STRUCTURE MATCHING of DirectiveParser.parse
DirectiveMatch(st, ln) ==
    LET top == st.nodes[Top(st.stack)] IN
    IF ln.loose.ok
    THEN IF top.type = "document" THEN Matched(Numbered(4, "item", ln.loose))
         ELSE IF top.type \in {"item", "subitem"}
         THEN IF \E k \in 1..Len(ln.loose.number) : ln.loose.number[k] = "."
              THEN Matched(Numbered(5, "subitem", ln.loose))
              ELSE Matched(Numbered(4, "item", ln.loose))
         ELSE Unmatched(TRUE)
    ELSE IF ln.point THEN Matched(LegalNode(6, "point", ln.text, NoAnchor))
    ELSE Unmatched(FALSE)

\* The METADATA part of DirectiveParser.parse and PlanParser.parse, then
\* the structure matching m of the profile
FooterThen(st, ln, m) ==
    IF SkipElement(ln.text) THEN Out(st, "skip", 0, NoNode)
    ELSE IF ln.recipients THEN Out(ToRecipients(st, ln.text), "recipients", 0, NoNode)
    ELSE IF ln.signature /\ (Len(ln.text) < ShortLine \/ ln.is_bold)
    THEN Out(ToSigners(st, ln.text), "signers", 0, NoNode)
    ELSE IF st.is_parsing_metadata
    THEN IF Len(ln.text) < ShortSigner
         THEN Out(AppendSigner(st, ln.text), "signers", 0, NoNode)
         ELSE Out(st, "dropped", 0, NoNode)
    ELSE IF st.stack = <<>> THEN Raise(st)
    ELSE FlatStructure(st, ln, m)

\* One pass of the loop of DirectiveParser.parse
DirectiveLine(st, ln) == FooterThen(st, ln, DirectiveMatch(st, ln))

\* ------------------------------------------------------------- PlanParser

\* STRUCTURE MATCHING of PlanParser.parse
PlanMatch(st, ln) ==
    LET top == st.nodes[Top(st.stack)] IN
    IF ln.roman.ok /\ ln.is_bold
    THEN Matched(LegalNode(2, "section", ln.roman.roman \o <<".", " ">> \o ln.roman.title,
                           NoAnchor))
    ELSE IF ln.loose.ok
         THEN IF top.type \in {"section", "item", "point"}
              THEN Matched(Numbered(4, "item", ln.loose))
              ELSE Unmatched(TRUE)
    ELSE IF ln.point THEN Matched(LegalNode(6, "point", ln.text, NoAnchor))
    ELSE Unmatched(FALSE)

\* One pass of the loop of PlanParser.parse
PlanLine(st, ln) == FooterThen(st, ln, PlanMatch(st, ln))

\* One pass of the loop of the parser of class doc
ProcessLine(doc, st, ln) ==
    CASE doc = "Hierarchical" -> HierarchicalLine(st, ln)
      [] doc = "Decision" -> DecisionLine(st, ln)
      [] doc = "Directive" -> DirectiveLine(st, ln)
      [] doc = "Plan" -> PlanLine(st, ln)

\* ------------------------------------------------------------ the result

EmptyDict == [k \in {} |-> k]

\* "\n".join(lines)
RECURSIVE JoinLines(_)
JoinLines(lines) ==
    IF lines = <<>> THEN <<>>
    ELSE IF Len(lines) = 1 THEN lines[1]
    ELSE lines[1] \o <<"LF">> \o JoinLines(Tail(lines))

\* LegalNode.to_dict
RECURSIVE to_dict(_, _)
to_dict(nodes, id) ==
    LET n == nodes[id]
        full_content == Strip(JoinLines(n.content))
    IN  [type |-> n.type, title |-> n.title]
        @@ (IF n.html_id # NoAnchor THEN [html_id |-> n.html_id] ELSE EmptyDict)
        @@ (IF full_content # <<>> THEN [content |-> full_content] ELSE EmptyDict)
        @@ (IF n.children # <<>>
            THEN [children |-> [k \in 1..Len(n.children) |-> to_dict(nodes, n.children[k])]]
            ELSE EmptyDict)

\* final_attachments of HierarchicalParser.parse
final_attachments(attachments) ==
    [k \in 1..Len(attachments) |->
        [title |-> attachments[k].title, content |-> JoinLines(attachments[k].content)]]

\* What parse returns after its loop.  Only HierarchicalParser fills
\* attachments; the other parsers return their empty list.
ParseResult(doc, st) ==
    [returned |-> TRUE,
     structure |-> to_dict(st.nodes, Root),
     metadata |-> st.metadata,
     attachments |-> IF doc = "Hierarchical" THEN final_attachments(st.attachments) ELSE <<>>]

\* None
None == [type |-> "NoneType"]

\* What parse returns for an empty html_content:
\* {"structure": None, "metadata": {}, "attachments": []}
EmptyResult ==
    [returned |-> TRUE, structure |-> None, metadata |-> EmptyDict, attachments |-> <<>>]

NoResult == [returned |-> FALSE]

\* ------------------------------------------------------ the state machine

\* before parse sets them, its locals hold nothing
Unset ==
    [nodes |-> <<>>, stack |-> <<>>,
     metadata |-> [recipients |-> <<>>, signers |-> <<>>],
     attachments |-> <<>>,
     is_parsing_appendices |-> FALSE, is_parsing_metadata |-> FALSE]

NoFirst == [trace |-> <<>>, history |-> <<>>, result |-> NoResult]

\* no call of parse through the single-call variables
ParseIdle ==
    /\ doc_type = "Hierarchical"
    /\ html_empty = FALSE
    /\ doc_title = DocTitle
    /\ pc = "idle"
    /\ locals = Unset
    /\ trace = <<>>
    /\ history = <<>>
    /\ result = NoResult
    /\ runs = 0
    /\ first = NoFirst

\* the elements Spec draws from
MainMenu == {1, 2, 3, 4, 5, 6, 7, 8, 9, 10, 11, 12, 13, 14, 15, 17, 19}

Init ==
    /\ doc_type \in Profiles
    /\ html_empty \in BOOLEAN
    /\ doc_title = DocTitle
    /\ pc = "call"
    /\ locals = Unset
    /\ trace = <<>>
    /\ history = <<>>
    /\ result = NoResult
    /\ runs = 0
    /\ first = NoFirst
    /\ PairIdle /\ SelectIdle /\ EnrichIdle /\ DiscoverIdle /\ DupIdle /\ ExtractIdle /\ ChunkIdle

\* if not html_content: return {...}
ParseEmpty ==
    /\ pc = "call"
    /\ html_empty
    /\ result' = EmptyResult
    /\ pc' = "done"
    /\ UNCHANGED <<doc_type, html_empty, doc_title, locals, trace, history, runs, first>>
    /\ UNCHANGED <<pair_vars, select_vars, enrich_vars, discover_vars, dup_vars, extract_vars, chunk_vars>>

\* parse up to its loop
ParseBegin ==
    /\ pc = "call"
    /\ ~html_empty
    /\ locals' = ParseStart
    /\ history' = <<ParseStart>>
    /\ pc' = "loop"
    /\ UNCHANGED <<doc_type, html_empty, doc_title, trace, result, runs, first>>
    /\ UNCHANGED <<pair_vars, select_vars, enrich_vars, discover_vars, dup_vars, extract_vars, chunk_vars>>

\* One pass of the loop, on element i of the catalogue.  A second call is
\* given the elements of the first.
ProcessElement(menu, max) ==
    /\ pc = "loop"
    /\ Len(trace) < max
    /\ \E i \in menu :
          /\ runs = 0 \/ (Len(trace) < Len(first.trace) /\ i = first.trace[Len(trace) + 1].line)
          /\ LET out == ProcessLine(doc_type, locals, Lines[i]) IN
             /\ locals' = out.st
             /\ history' = Append(history, out.st)
             /\ trace' = Append(trace, [line |-> i, kind |-> out.kind,
                                        node |-> out.node, cand |-> out.cand])
             /\ pc' = IF out.raised THEN "raised" ELSE "loop"
    /\ UNCHANGED <<doc_type, html_empty, doc_title, result, runs, first>>
    /\ UNCHANGED <<pair_vars, select_vars, enrich_vars, discover_vars, dup_vars, extract_vars, chunk_vars>>

\* the elements are exhausted: parse returns
Return ==
    /\ pc = "loop"
    /\ runs = 0 \/ Len(trace) = Len(first.trace)
    /\ result' = ParseResult(doc_type, locals)
    /\ pc' = "done"
    /\ UNCHANGED <<doc_type, html_empty, doc_title, locals, trace, history, runs, first>>
    /\ UNCHANGED <<pair_vars, select_vars, enrich_vars, discover_vars, dup_vars, extract_vars, chunk_vars>>

\* The same parser object is called again with the same html_content and
\* title.  What the first call left in its locals is garbage by now.
ParseAgain ==
    /\ pc = "done"
    /\ runs = 0
    /\ runs' = 1
    /\ first' = [trace |-> trace, history |-> history, result |-> result]
    /\ trace' = <<>>
    /\ history' = <<>>
    /\ result' = NoResult
    /\ pc' = "call"
    /\ UNCHANGED <<doc_type, html_empty, doc_title, locals>>
    /\ UNCHANGED <<pair_vars, select_vars, enrich_vars, discover_vars, dup_vars, extract_vars, chunk_vars>>

Next ==
    \/ ParseEmpty
    \/ ParseBegin
    \/ ProcessElement(MainMenu, MaxLines)
    \/ Return

\* one parse of a document of up to MaxLines elements of MainMenu
Spec == Init /\ [][Next]_vars

\* the elements of a document footer after an article
FooterMenu == {3, 6, 7, 8, 10}

MaxFooterLines == 4

NextFooter ==
    \/ ParseEmpty
    \/ ParseBegin
    \/ ProcessElement(FooterMenu, MaxFooterLines)
    \/ Return

\* one parse of a document of up to MaxFooterLines elements of FooterMenu
SpecFooter == Init /\ [][NextFooter]_vars

\* the elements of a document that is parsed twice
TwiceMenu == {2, 3, 4, 5, 6, 7, 9, 12, 13}

MaxTwiceLines == 3

NextTwice ==
    \/ ParseEmpty
    \/ ParseBegin
    \/ ProcessElement(TwiceMenu, MaxTwiceLines)
    \/ Return
    \/ ParseAgain

\* two calls of parse, one after the other, on the same document
SpecTwice == Init /\ [][NextTwice]_vars

\* the elements of a document whose headers are rendered twice
ReopenMenu == {2, 3, 4, 5, 10, 19}

MaxReopenLines == 4

NextReopen ==
    \/ ParseEmpty
    \/ ParseBegin
    \/ ProcessElement(ReopenMenu, MaxReopenLines)
    \/ Return

\* one parse of a document of up to MaxReopenLines elements of ReopenMenu
SpecReopen == Init /\ [][NextReopen]_vars

\* the elements of a document body: headers, bold and not, numbered lines,
\* points and prose
ClassifyMenu == {2, 3, 4, 5, 10, 11, 12, 16, 20}

MaxClassifyLines == 3

NextClassify ==
    \/ ParseEmpty
    \/ ParseBegin
    \/ ProcessElement(ClassifyMenu, MaxClassifyLines)
    \/ Return

\* one parse of a document of up to MaxClassifyLines elements of
\* ClassifyMenu
SpecClassify == Init /\ [][NextClassify]_vars

\* the elements of a document with an appendix and a signature block
SignatureMenu == {3, 6, 8, 9, 10, 18, 21, 22}

MaxSignatureLines == 3

NextSignature ==
    \/ ParseEmpty
    \/ ParseBegin
    \/ ProcessElement(SignatureMenu, MaxSignatureLines)
    \/ Return

\* one parse of a document of up to MaxSignatureLines elements of
\* SignatureMenu
SpecSignature == Init /\ [][NextSignature]_vars

\* ---------------------------------------------------------------- claims

\* the element of pass k, as selected, and as extracted
ElementOf(k) == Catalogue[trace[k].line]
LineOf(k) == Lines[trace[k].line]

\* the locals before pass k
Before(k) == history[k]

\* pass k reached the structural matching and made a matched_node
HasCandidate(k) == trace[k].kind \in {"created", "merged"}

\* s holds x
InSeq(x, s) == \E k \in 1..Len(s) : s[k] = x

\* no entry of s occurs twice
NoRepeat(s) == \A j, k \in 1..Len(s) : s[j] = s[k] => j = k

\* the level the data model fixes for a type
LevelOfType(type) ==
    CASE type = "document" -> 0
      [] type = "part" -> 1
      [] type = "chapter" -> 2
      [] type = "section" -> 3
      [] type \in {"article", "item"} -> 4
      [] type \in {"clause", "subitem"} -> 5
      [] type = "point" -> 6

\* C1 Level monotonicity: in every state of every profile parser, after
\* every line and at the return, the level of every child node is strictly
\* greater than the level of its parent, also for children attached to a
\* sibling that a duplicate merge has re-opened.
C1_LevelMonotonicity ==
    \A p \in DOMAIN locals.nodes :
       \A k \in DOMAIN locals.nodes[p].children :
          locals.nodes[locals.nodes[p].children[k]].level > locals.nodes[p].level

\* a merge re-opened a sibling and the next line attached a child to it
C1_Witness ==
    \E k \in 1..(Len(trace) - 1) :
       /\ trace[k].kind = "merged"
       /\ trace[k + 1].kind = "created"
       /\ InSeq(trace[k + 1].node, locals.nodes[trace[k].node].children)

Kinds ==
    {"skip", "recipients", "signers", "dropped", "appendix_header",
     "appendix_content", "created", "merged", "content"}

\* C2 parse never fails: no pass of the loop raises (no read of the top of
\* an empty stack, of the last entry of an empty attachment list, of the
\* first character of an empty text), every line is processed by one of
\* the defined steps, and parse returns a result with structure, metadata
\* and attachments.
C2_NeverFails ==
    /\ pc # "raised"
    /\ \A k \in 1..Len(trace) : trace[k].kind \in Kinds
    /\ pc \in {"loop", "done"} /\ ~html_empty => locals.stack # <<>>
    /\ pc = "done" =>
          /\ result.returned
          /\ {"structure", "metadata", "attachments"} \subseteq DOMAIN result

\* an element without text met in the metadata phase of HierarchicalParser,
\* and parse has returned
C2_Witness ==
    /\ pc = "done"
    /\ doc_type = "Hierarchical"
    /\ \E k \in 1..Len(trace) :
          /\ ElementOf(k).text = <<>>
          /\ Before(k).is_parsing_metadata
          /\ trace[k].kind = "skip"

\* C3 Empty input: parse("", "T") returns a root node of type document with
\* the title "T", no content and no children, metadata with an empty
\* recipients and an empty signers list, and an empty attachments list.
C3_EmptyInput ==
    pc = "done" /\ html_empty =>
       /\ result.returned
       /\ result.structure.type = "document"
       /\ result.structure.title = doc_title
       /\ DOMAIN result.structure = {"type", "title"}
       /\ DOMAIN result.metadata = {"recipients", "signers"}
       /\ result.metadata.recipients = <<>>
       /\ result.metadata.signers = <<>>
       /\ result.attachments = <<>>

AnchorPrefixType(name) ==
    IF Len(name) < 2 \/ name[2] # "_" THEN "None"
    ELSE CASE name[1] = "dieu" -> "article"
           [] name[1] = "chuong" -> "chapter"
           [] name[1] = "phan" -> "part"
           [] name[1] = "muc" -> "section"
           [] name[1] = "khoan" -> "clause"
           [] OTHER -> "None"

StructuralAnchor(name) ==
    /\ AnchorPrefixType(name) # "None"
    /\ ~(Len(name) >= 2 /\ name[Len(name)] = "name" /\ name[Len(name) - 1] = "_")

\* C5 Anchor precedence: in HierarchicalParser a line that reaches the
\* structural matching with a structural anchor (dieu_, chuong_, phan_,
\* muc_, khoan_, not ending in _name) yields a matched node of the type and
\* level the anchor maps to, with the anchor name as html_id and the line
\* text as title, whatever pattern the text matches and bold or not; the
\* node created is that node, on top of the stack.
C5_AnchorPrecedence ==
    doc_type = "Hierarchical" /\ trace # <<>> =>
       LET n == Len(trace)
           ev == trace[n]
           el == ElementOf(n)
       IN  (/\ StructuralAnchor(el.name)
            /\ ev.kind \in {"created", "merged", "content"})
           => /\ HasCandidate(n)
              /\ ev.cand.type = AnchorPrefixType(el.name)
              /\ ev.cand.level = LevelOfType(ev.cand.type)
              /\ ev.cand.html_id = el.name
              /\ ev.cand.title = LineOf(n).text
              /\ ev.kind = "created" =>
                    /\ locals.nodes[ev.node] = ev.cand
                    /\ Top(locals.stack) = ev.node

\* "Dieu 5" inside <a name="khoan_5">, not bold, became a clause
C5_Witness ==
    /\ doc_type = "Hierarchical"
    /\ trace # <<>>
    /\ LET n == Len(trace) IN
       /\ ElementOf(n).name = <<"khoan", "_", "5">>
       /\ LineOf(n).article
       /\ trace[n].kind = "created"
       /\ locals.nodes[trace[n].node].type = "clause"

\* C6 Metadata routing: with an article open, the three lines "Noi nhan:",
\* "- Nhu tren;", "TM. CHINH PHU" leave the first two in
\* metadata.recipients and the third in metadata.signers, and none of them
\* in the content of the article.
C6_MetadataRouting ==
    LET n == Len(trace) IN
    (/\ n >= 4
     /\ HasCandidate(n - 3)
     /\ trace[n - 3].cand.type = "article"
     /\ <<trace[n - 2].line, trace[n - 1].line, trace[n].line>> = <<6, 7, 8>>)
    => /\ InSeq(Lines[6].text, locals.metadata.recipients)
       /\ InSeq(Lines[7].text, locals.metadata.recipients)
       /\ InSeq(Lines[8].text, locals.metadata.signers)
       /\ \A i \in {6, 7, 8} :
             ~InSeq(Lines[i].text, locals.nodes[trace[n - 3].node].content)

\* the first space of a text (Len + 1 if none)
RECURSIVE FirstSpace(_, _)
FirstSpace(s, i) == IF i > Len(s) \/ s[i] = " " THEN i ELSE FirstSpace(s, i + 1)

\* of a line "n. rest" or "x) rest": what stands before the first space,
\* and what stands after it
MarkerOf(text) == SubSeq(text, 1, FirstSpace(text, 1) - 1)
RestOf(text) == SubSeq(text, FirstSpace(text, 1) + 1, Len(text))

\* DecisionParser has processed an article header line, a loose-numbered
\* line and a point-marker line, in that order and nothing else
NestingInput ==
    /\ doc_type = "Decision"
    /\ Len(trace) = 3
    /\ LineOf(1).article /\ ~LineOf(1).recipients /\ ~LineOf(1).signature
    /\ LineOf(2).loose.ok
    /\ LineOf(3).point /\ ~LineOf(3).loose.ok

\* the chain document -> article -> clause -> point with levels 0, 4, 5, 6,
\* the article titled by its whole line, the clause by its number with the
\* rest as content
NestingChain ==
    /\ Len(locals.nodes) = 4
    /\ locals.nodes[1].children = <<2>> /\ locals.nodes[2].children = <<3>>
    /\ locals.nodes[3].children = <<4>> /\ locals.nodes[4].children = <<>>
    /\ [k \in 1..4 |-> locals.nodes[k].type] = <<"document", "article", "clause", "point">>
    /\ [k \in 1..4 |-> locals.nodes[k].level] = <<0, 4, 5, 6>>
    /\ locals.nodes[2].title = LineOf(1).text
    /\ locals.nodes[2].content = <<>>
    /\ locals.nodes[3].title = RStripDots(MarkerOf(LineOf(2).text))
    /\ locals.nodes[3].content = <<RestOf(LineOf(2).text)>>

\* C7 Full nesting, as claimed: the point is titled by its marker x) and
\* has the rest of its line as content.
C7_FullNestingSplitPoint ==
    NestingInput =>
       /\ NestingChain
       /\ locals.nodes[4].title = MarkerOf(LineOf(3).text)
       /\ locals.nodes[4].content = <<RestOf(LineOf(3).text)>>

\* C7 Full nesting, amended: under DecisionParser an article header line,
\* a loose-numbered line "n. rest" and a point-marker line "x) rest" yield
\* the chain document -> article -> clause -> point with levels 0, 4, 5, 6;
\* the article is titled by its whole line, the clause by the number n with
\* rest as content, and the point by its whole line "x) rest", without
\* content.
C7_FullNesting ==
    NestingInput =>
       /\ NestingChain
       /\ locals.nodes[4].title = LineOf(3).text
       /\ locals.nodes[4].content = <<>>

\* "Dieu 1. ABC", "1. xyz", "a) foo" under DecisionParser
C7_Witness ==
    /\ NestingInput
    /\ <<trace[1].line, trace[2].line, trace[3].line>> = <<3, 4, 5>>
    /\ pc = "done"

\* the normalized title of the duplicate check
NormTitle(t) == RStripDots(Lower(clean_text(t)))

\* C8 Duplicate merge: under HierarchicalParser, when two consecutive lines
\* classify to nodes of the same type with equal normalized titles, the
\* second makes no new node but is merged into the node of the first, and
\* no content line occurs twice in the merged node.
C8_DuplicateMerge ==
    doc_type = "Hierarchical" /\ Len(trace) >= 2 =>
       LET n == Len(trace)
           a == trace[n - 1]
           b == trace[n]
       IN  (/\ HasCandidate(n - 1) /\ HasCandidate(n)
            /\ a.cand.type = b.cand.type
            /\ NormTitle(a.cand.title) = NormTitle(b.cand.title))
           => /\ b.kind = "merged"
              /\ b.node = a.node
              /\ Len(locals.nodes) = Len(Before(n).nodes)
              /\ \A p \in DOMAIN locals.nodes :
                    Len(locals.nodes[p].children) = Len(Before(n).nodes[p].children)
              /\ NoRepeat(locals.nodes[b.node].content)

\* C9 Fixed level per type: every node has the level fixed for its type:
\* document 0, part 1, chapter 2, section 3, article and item 4, clause and
\* subitem 5, point 6.
C9_FixedLevels ==
    \A p \in DOMAIN locals.nodes :
       locals.nodes[p].level = LevelOfType(locals.nodes[p].type)

\* how often node id stands in a children list
Occurrences(id) ==
    Cardinality({<<p, k>> \in (DOMAIN locals.nodes) \X (1..Len(locals.nodes)) :
                    k <= Len(locals.nodes[p].children) /\ locals.nodes[p].children[k] = id})

\* the nodes met by following children from the nodes of S
RECURSIVE Reachable(_)
Reachable(S) ==
    LET more == S \cup {locals.nodes[p].children[k] :
                           <<p, k>> \in {<<p, k>> \in S \X (1..Len(locals.nodes)) :
                                            k <= Len(locals.nodes[p].children)}}
    IN  IF more = S THEN S ELSE Reachable(more)

\* C10 Tree ownership: every node but the root stands exactly once in
\* exactly one children list, the root in none, and every node is met by
\* following children from the root, so that no node is shared and there is
\* no cycle; also after duplicate merges.
C10_TreeOwnership ==
    locals.nodes # <<>> =>
       /\ Occurrences(Root) = 0
       /\ \A id \in DOMAIN locals.nodes \ {Root} : Occurrences(id) = 1
       /\ Reachable({Root}) = DOMAIN locals.nodes

\* two merges in a row into the same sibling
C10_Witness ==
    /\ Len(trace) = 3
    /\ trace[2].kind = "merged"
    /\ trace[3].kind = "merged"
    /\ trace[3].node = trace[2].node
    /\ Occurrences(trace[3].node) = 1

\* the anchor name ends in the reserved suffix _name
NameAnchor(name) == EndsWith(name, <<"_", "name">>)

\* what pass k would have done with the same element without its anchor
WithoutAnchor(k) ==
    ProcessLine(doc_type, Before(k), Extract([ElementOf(k) EXCEPT !.name = NoAnchor]))

\* C11 The _name exclusion: an anchor whose name ends in _name never decides
\* the type of a node (the pass makes the node it makes of the same element
\* without the anchor), and no node of the tree has such a name as its
\* html_id, neither a node made from a text pattern nor a sibling whose
\* missing html_id a duplicate merge fills.
C11_NameExclusion ==
    /\ \A k \in 1..Len(trace) :
          NameAnchor(ElementOf(k).name) =>
             /\ trace[k].kind = WithoutAnchor(k).kind
             /\ trace[k].cand.type = WithoutAnchor(k).cand.type
    /\ \A id \in DOMAIN locals.nodes : ~NameAnchor(locals.nodes[id].html_id)

\* ------------------------------------------- two calls of parse, interleaved

\* the threads, each with one call of parse on a parser of its own
Threads == {1, 2}

PairProfiles == {"Hierarchical", "Decision"}

\* the elements of the two documents: an article, a recipients marker, a
\* signature marker
PairMenu == {3, 6, 8}

MaxPairLines == 2

\* the keys of the class attribute PATTERNS
PATTERN_KEYS ==
    {"part", "chapter", "section", "article", "point", "appendix",
     "recipients", "signature", "loose_numbering"}

\* BindLocals as it would be if metadata were an attribute of the class,
\* one holder for all calls
BindLocalsShared(fr, c, st) ==
    [d \in DOMAIN fr |->
        IF d = c THEN [fr[d] EXCEPT !.locals = st]
        ELSE IF fr[d].pc = "loop" THEN [fr[d] EXCEPT !.locals.metadata = st.metadata]
        ELSE fr[d]]

\* root, stack, metadata, attachments and the flags are local variables of
\* parse: what a pass assigns goes to the frame of its own call
BindLocals(fr, c, st) == [fr EXCEPT ![c].locals = st]

InitPair ==
    /\ ParseIdle /\ SelectIdle /\ EnrichIdle /\ DiscoverIdle /\ DupIdle /\ ExtractIdle /\ ChunkIdle
    /\ frames \in [Threads -> {[doc_type |-> d, pc |-> "call", elements |-> <<>>,
                                locals |-> Unset, result |-> NoResult,
                                interleaved |-> FALSE] : d \in PairProfiles}]
    /\ patterns = PATTERN_KEYS

\* the other call is inside its loop
OtherInLoop(c) == \E d \in Threads \ {c} : frames[d].pc = "loop"

\* call c runs parse up to its loop
PairBegin(c) ==
    /\ frames[c].pc = "call"
    /\ frames' = BindLocals([frames EXCEPT ![c].pc = "loop"], c, ParseStart)
    /\ UNCHANGED <<patterns, parse_vars, select_vars, enrich_vars, discover_vars, dup_vars, extract_vars, chunk_vars>>

\* call c makes one pass of its loop, on element i of the catalogue; the
\* pass looks its patterns up in PATTERNS
PairElement(c) ==
    /\ frames[c].pc = "loop"
    /\ Len(frames[c].elements) < MaxPairLines
    /\ \E i \in PairMenu :
          LET out == IF PATTERN_KEYS \subseteq patterns
                     THEN ProcessLine(frames[c].doc_type, frames[c].locals, Lines[i])
                     ELSE Raise(frames[c].locals)
          IN  frames' = BindLocals(
                            [frames EXCEPT ![c].elements = Append(@, i),
                                           ![c].pc = IF out.raised THEN "raised" ELSE "loop",
                                           ![c].interleaved = @ \/ OtherInLoop(c)],
                            c, out.st)
    /\ UNCHANGED <<patterns, parse_vars, select_vars, enrich_vars, discover_vars, dup_vars, extract_vars, chunk_vars>>

\* call c returns
PairReturn(c) ==
    /\ frames[c].pc = "loop"
    /\ frames' = [frames EXCEPT ![c].pc = "done",
                                ![c].result = ParseResult(frames[c].doc_type, frames[c].locals)]
    /\ UNCHANGED <<patterns, parse_vars, select_vars, enrich_vars, discover_vars, dup_vars, extract_vars, chunk_vars>>

NextPair ==
    \E c \in Threads :
       \/ PairBegin(c)
       \/ PairElement(c)
       \/ PairReturn(c)

\* two calls of parse on two documents of up to MaxPairLines elements,
\* their passes interleaved in any order
SpecPair == InitPair /\ [][NextPair]_vars

\* the locals of a call of parser doc that processes elements k.. of els
\* alone, from locals st
RECURSIVE Alone(_, _, _, _)
Alone(doc, st, els, k) ==
    IF k > Len(els) THEN st
    ELSE Alone(doc, ProcessLine(doc, st, Lines[els[k]]).st, els, k + 1)

PARSER_MAP ==
    [d \in {"Luaajt", "Thoong tuw", "Thoong tuw lieen tijch", "Nghij ddijnh",
            "Phasp leejnh", "Vawn barn howjp nhaast", "Quy chees", "Quy ddijnh"}
        |-> "Hierarchical"]
    @@ [d \in {"Quyeest ddijnh", "Leejnh", "Sawsc leejnh", "Nghij quyeest"} |-> "Decision"]
    @@ [d \in {"Thoong baso", "Coong ddieejn", "Thoong tri"} |-> "Directive"]
    @@ [d \in {"Chir thij", "Kees hoajch", "Huwowsng daaxn", "Baso caso"} |-> "Plan"]

\* get_parser without the default of the lookup
get_parser_nodefault(declared) ==
    IF declared \in DOMAIN PARSER_MAP THEN PARSER_MAP[declared] ELSE "None"

\* get_parser(doc_type): PARSER_MAP.get(doc_type, HierarchicalParser)
get_parser(declared) ==
    IF declared \in DOMAIN PARSER_MAP THEN PARSER_MAP[declared] ELSE "Hierarchical"

\* the strings get_parser is called with: the keys of the map, and strings
\* that are no key (another case, a space more, the empty string, types
\* the map does not name)
DeclaredTypes ==
    DOMAIN PARSER_MAP
    \cup {"luaajt", "LUAAJT", "Quyeest ddijnh ", " Chir thij", "", "Coong vawn",
          "Nghij quyeest lieen tijch", "Unknown"}

MaxSelections == 2

InitSelect ==
    /\ ParseIdle /\ PairIdle /\ EnrichIdle /\ DiscoverIdle /\ DupIdle /\ ExtractIdle /\ ChunkIdle
    /\ selection = <<>>

\* a caller asks for the parser of a document type
GetParser ==
    /\ Len(selection) < MaxSelections
    /\ \E d \in DeclaredTypes :
          selection' = Append(selection, [doc_type |-> d, parser |-> get_parser(d)])
    /\ UNCHANGED <<parse_vars, pair_vars, enrich_vars, discover_vars, dup_vars, extract_vars, chunk_vars>>

NextSelect == GetParser

\* up to MaxSelections calls of get_parser
SpecSelect == InitSelect /\ [][NextSelect]_vars

\* the profile table of the specification
ProfileTable ==
    [d \in {"Luaajt", "Nghij ddijnh", "Thoong tuw", "Phasp leejnh", "Vawn barn howjp nhaast"}
        |-> "Hierarchical"]
    @@ [d \in {"Quyeest ddijnh", "Leejnh", "Nghij quyeest"} |-> "Decision"]
    @@ [d \in {"Thoong baso", "Coong ddieejn", "Thoong tri"} |-> "Directive"]
    @@ [d \in {"Chir thij", "Kees hoajch", "Huwowsng daaxn", "Baso caso"} |-> "Plan"]

MAX_RETRIES == 3

CENTRAL_TYPES ==
    {"Luaajt", "Nghij ddijnh", "Thoong tuw", "Thoong tuw lieen tijch", "Phasp leejnh"}

\* the rows of the dataset: so_hieu, category, loai_van_ban
DATASET ==
    <<[so_hieu |-> <<"A">>, category |-> "Thue-Phi-Le-Phi", loai_van_ban |-> "Luaajt"],
      [so_hieu |-> <<"A", " ">>, category |-> "Thue-Phi-Le-Phi", loai_van_ban |-> "Luaajt"],
      [so_hieu |-> <<"B", " ">>, category |-> "Thue-Phi-Le-Phi", loai_van_ban |-> "Thoong tuw"],
      [so_hieu |-> <<" ">>, category |-> "Thue-Phi-Le-Phi", loai_van_ban |-> "Luaajt"],
      [so_hieu |-> <<"D">>, category |-> "Thue-Phi-Le-Phi", loai_van_ban |-> "Quyeest ddijnh"],
      [so_hieu |-> <<"E">>, category |-> "Dat-dai", loai_van_ban |-> "Luaajt"],
      [so_hieu |-> <<"C">>, category |-> "Thue-Phi-Le-Phi", loai_van_ban |-> "Nghij ddijnh"]>>

\* Deduplicate by so_hieu (keep first occurrence)
RECURSIVE Unique(_, _, _)
Unique(docs, k, seen) ==
    IF k > Len(docs) THEN <<>>
    ELSE IF Strip(docs[k].so_hieu) \in seen THEN Unique(docs, k + 1, seen)
    ELSE <<docs[k]>> \o Unique(docs, k + 1, seen \cup {Strip(docs[k].so_hieu)})

\* load_tax_docs(category)
load_tax_docs(category) ==
    Unique(SelectSeq(DATASET,
                     LAMBDA row : /\ row.category = category
                                  /\ row.loai_van_ban \in CENTRAL_TYPES
                                  /\ row.so_hieu # <<>> /\ Strip(row.so_hieu) # <<>>),
           1, {})

\* load_checkpoint: the so_hieu of the records of the JSONL
load_checkpoint(file) ==
    {file[k].original.so_hieu : k \in {j \in 1..Len(file) : file[j].original.so_hieu # <<>>}}

\* Remaining as it would be without the strip
RemainingRaw(docs, done) == SelectSeq(docs, LAMBDA d : d.so_hieu \notin done)

\* remaining = [d for d in docs if d["so_hieu"].strip() not in done]
Remaining(docs, done) == SelectSeq(docs, LAMBDA d : Strip(d.so_hieu) \notin done)

\* docs[: args.limit] if args.limit > 0
Limited(docs, limit) ==
    IF limit > 0 THEN SubSeq(docs, 1, IF limit < Len(docs) THEN limit ELSE Len(docs)) ELSE docs

NoneValue == "None"

\* the record enrich_one starts with
NewRecord(item) ==
    [original |-> [so_hieu |-> Strip(item.so_hieu), loai_van_ban |-> item.loai_van_ban,
                   category |-> item.category],
     match |-> NoneValue, validity |-> NoneValue, evidence |-> NoneValue, error |-> NoneValue]

\* what an exception says (str(e))
Messages == {"HTTP 500", ""}

\* MoreAttempts as it would be with one attempt more
MoreAttemptsOffByOne(attempt) == attempt < MAX_RETRIES + 1

\* for attempt in range(1, MAX_RETRIES + 1): another attempt follows attempt
MoreAttempts(attempt) == attempt < MAX_RETRIES

MaxEnrichRuns == 2

\* the locals of main before a run
NoRun ==
    [pc |-> "shell", run |-> 0, limit |-> 0, no_resume |-> FALSE, docs |-> <<>>,
     remaining |-> <<>>, k |-> 0, attempt |-> 0, failures |-> 0,
     record |-> NoneValue, last_error |-> NoneValue, resumed_from |-> 0]

InitEnrich ==
    /\ ParseIdle /\ PairIdle /\ SelectIdle /\ DiscoverIdle /\ DupIdle /\ ExtractIdle /\ ChunkIdle
    /\ jsonl = <<>>
    /\ batch = NoRun

\* main up to its loop: load the documents, apply --limit, clear the output
\* on --no-resume, load the checkpoint, select what remains
EnrichStart ==
    /\ batch.pc \in {"shell", "done", "killed"}
    /\ batch.run < MaxEnrichRuns
    /\ \E limit \in 0..2, no_resume \in BOOLEAN :
          LET docs == Limited(load_tax_docs("Thue-Phi-Le-Phi"), limit)
              file == IF no_resume THEN <<>> ELSE jsonl
              done == IF no_resume THEN {} ELSE load_checkpoint(file)
              remaining == Remaining(docs, done)
          IN  /\ jsonl' = file
              /\ batch' = [NoRun EXCEPT !.pc = IF remaining = <<>> THEN "done" ELSE "loop",
                                        !.run = batch.run + 1,
                                        !.limit = limit, !.no_resume = no_resume,
                                        !.docs = docs, !.remaining = remaining, !.k = 1,
                                        !.resumed_from = Len(file)]
    /\ UNCHANGED <<parse_vars, pair_vars, select_vars, discover_vars, dup_vars, extract_vars, chunk_vars>>

\* for item in pbar: enrich_one is called on the next document
EnrichOne ==
    /\ batch.pc = "loop"
    /\ batch.k <= Len(batch.remaining)
    /\ batch' = [batch EXCEPT !.pc = "attempt", !.attempt = 1, !.failures = 0,
                              !.record = NewRecord(batch.remaining[batch.k]),
                              !.last_error = NoneValue]
    /\ UNCHANGED <<jsonl, parse_vars, pair_vars, select_vars, discover_vars, dup_vars, extract_vars, chunk_vars>>

\* the except branch of an attempt, and the end of enrich_one after the
\* last one
Failed(b, message) ==
    IF MoreAttempts(b.attempt)
    THEN [b EXCEPT !.last_error = message, !.failures = @ + 1, !.attempt = @ + 1]
    ELSE [b EXCEPT !.last_error = message, !.failures = @ + 1,
                   !.record.error = message, !.pc = "write"]

\* one attempt of enrich_one: the search, and the enrichment if the search
\* found a match
EnrichAttempt ==
    /\ batch.pc = "attempt"
    /\ \/ \E message \in Messages : batch' = Failed(batch, message)
       \/ batch' = [batch EXCEPT !.record.match = [confidence |-> "none"], !.pc = "write"]
       \/ \E message \in Messages :
             batch' = Failed([batch EXCEPT !.record.match = [confidence |-> "exact"]], message)
       \/ batch' = [batch EXCEPT !.record.match = [confidence |-> "exact"],
                                 !.record.validity = "validity",
                                 !.record.evidence = "evidence",
                                 !.pc = "write"]
    /\ UNCHANGED <<jsonl, parse_vars, pair_vars, select_vars, discover_vars, dup_vars, extract_vars, chunk_vars>>

\* append_result, and on to the next document
EnrichAppend ==
    /\ batch.pc = "write"
    /\ jsonl' = Append(jsonl, batch.record)
    /\ batch' = [batch EXCEPT !.pc = "loop", !.k = @ + 1]
    /\ UNCHANGED <<parse_vars, pair_vars, select_vars, discover_vars, dup_vars, extract_vars, chunk_vars>>

\* the documents are exhausted: BATCH COMPLETE
EnrichComplete ==
    /\ batch.pc = "loop"
    /\ batch.k > Len(batch.remaining)
    /\ batch' = [batch EXCEPT !.pc = "done"]
    /\ UNCHANGED <<jsonl, parse_vars, pair_vars, select_vars, discover_vars, dup_vars, extract_vars, chunk_vars>>

\* the process is interrupted, between two documents or inside one
EnrichKill ==
    /\ batch.pc \in {"loop", "attempt", "write"}
    /\ batch' = [batch EXCEPT !.pc = "killed"]
    /\ UNCHANGED <<jsonl, parse_vars, pair_vars, select_vars, discover_vars, dup_vars, extract_vars, chunk_vars>>

NextEnrich ==
    \/ EnrichStart
    \/ EnrichOne
    \/ EnrichAttempt
    \/ EnrichAppend
    \/ EnrichComplete
    \/ EnrichKill

\* up to MaxEnrichRuns runs of the batch enrichment on the same output
SpecEnrich == InitEnrich /\ [][NextEnrich]_vars

\* the number of records of so_hieu sh in the JSONL
RecordsOf(sh) == Cardinality({k \in 1..Len(jsonl) : jsonl[k].original.so_hieu = sh})

\* C14 Enrichment checkpoint: over any sequence of runs with resume, killed
\* at any point, a document whose so_hieu has a record in the JSONL is
\* never processed again (no so_hieu ever has two records, and the document
\* a run works on has none), and when a run completes every selected
\* document has exactly one record.
C14_Checkpoint ==
    batch.pc # "idle" =>
       /\ \A j, k \in 1..Len(jsonl) :
             jsonl[j].original.so_hieu = jsonl[k].original.so_hieu => j = k
       /\ batch.pc \in {"attempt", "write"} => RecordsOf(batch.record.original.so_hieu) = 0
       /\ batch.pc = "done" =>
             \A k \in 1..Len(batch.docs) : RecordsOf(Strip(batch.docs[k].so_hieu)) = 1

\* a second run, resumed from one record that a killed run left, has
\* completed with all three documents recorded
C14_Witness ==
    /\ batch.pc = "done"
    /\ batch.run = 2
    /\ ~batch.no_resume
    /\ batch.resumed_from = 1
    /\ Len(batch.remaining) = 2
    /\ Len(jsonl) = 3

\* C16 Per-document error isolation with bounded retry: enrich_one makes at
\* most MAX_RETRIES attempts, returns a record in every case, and the error
\* of that record is set exactly when every attempt failed; the loop
\* appends the record and goes on, so that the run has written one record
\* for each document it has passed.
C16_ErrorIsolation ==
    batch.pc # "idle" =>
       /\ batch.attempt <= MAX_RETRIES
       /\ batch.failures <= MAX_RETRIES
       /\ batch.pc = "write" =>
             /\ batch.record.original.so_hieu = Strip(batch.remaining[batch.k].so_hieu)
             /\ (batch.record.error # NoneValue) <=> (batch.failures = MAX_RETRIES)
             /\ batch.failures = MAX_RETRIES => batch.record.error = batch.last_error
       /\ batch.pc \in {"loop", "done"} /\ batch.run > 0 =>
             Len(jsonl) - batch.resumed_from = batch.k - 1

\* a document whose three attempts failed has its record, with the error,
\* in the JSONL, and the run is at work on the next document
C16_Witness ==
    /\ batch.pc = "attempt"
    /\ batch.k = 2
    /\ Len(jsonl) = 1
    /\ jsonl[1].error = "HTTP 500"
    /\ batch.failures = 2

\* ---- weekly discovery (discover_new_documents.py) ----

MaxDiscoverRuns == 2

\* the listing pages of the site for each weekly chunk: ItemIDs by page
SITE == << << <<1, 2>>, <<3>> >>, << <<4>> >> >>

\* generate_weekly_chunks: the chunk keys of the date range, in order
generate_weekly_chunks == <<1, 2>>

RECURSIVE Pages(_, _, _)
\* the ItemIDs of pages from..upto of a listing, each once, in order
Pages(listing, from, upto) ==
    IF from > upto THEN <<>>
    ELSE listing[from] \o
         SelectSeq(Pages(listing, from + 1, upto), LAMBDA id : ~InSeq(id, listing[from]))

\* VBPLCrawler.discover when the fetch of page failing fails (0: none
\* does): the first page raises, a later page ends the crawl with what
\* the pages before it gave
crawler_discover(week, failing) ==
    IF failing = 1 THEN [raised |-> TRUE, results |-> <<>>]
    ELSE IF failing = 0 \/ failing > Len(SITE[week])
    THEN [raised |-> FALSE, results |-> Pages(SITE[week], 1, Len(SITE[week]))]
    ELSE [raised |-> FALSE, results |-> Pages(SITE[week], 1, failing - 1)]

\* load_checkpoint of the discovery: the ItemIDs of the records
done_ids_of(file) == {file[k] : k \in 1..Len(file)}

\* global_limit_remaining when no --limit is given (None)
NoLimit == -1

\* Apply global limit
ApplyLimit(new_matches, global_limit_remaining) ==
    IF global_limit_remaining = NoLimit THEN new_matches
    ELSE SubSeq(new_matches, 1,
                IF Len(new_matches) < global_limit_remaining THEN Len(new_matches)
                ELSE global_limit_remaining)

\* the locals of run_discover before a run
NoDiscover ==
    [pc |-> "shell", run |-> 0, done_ids |-> {}, remaining_chunks |-> <<>>, week_idx |-> 0,
     global_limit_remaining |-> NoLimit, new_matches |-> <<>>, j |-> 0,
     discovered |-> [w \in {} |-> {}]]

InitDiscover ==
    /\ ParseIdle /\ PairIdle /\ SelectIdle /\ EnrichIdle /\ DupIdle /\ ExtractIdle /\ ChunkIdle
    /\ week_ckpt = {}
    /\ found = <<>>
    /\ discover = NoDiscover

\* run_discover up to its loop: load both checkpoints, drop the completed
\* chunks
DiscoverStart ==
    /\ discover.pc \in {"shell", "done", "killed"}
    /\ discover.run < MaxDiscoverRuns
    /\ \E limit \in 0..2 :
          LET remaining_chunks == SelectSeq(generate_weekly_chunks, LAMBDA w : w \notin week_ckpt)
          IN  discover' = [discover EXCEPT
                             !.pc = IF remaining_chunks = <<>> THEN "done" ELSE "week",
                             !.run = @ + 1,
                             !.done_ids = done_ids_of(found),
                             !.remaining_chunks = remaining_chunks,
                             !.week_idx = 1,
                             !.global_limit_remaining = IF limit > 0 THEN limit ELSE NoLimit,
                             !.new_matches = <<>>, !.j = 0]
    /\ UNCHANGED <<week_ckpt, found, parse_vars, pair_vars, select_vars, enrich_vars, dup_vars, extract_vars, chunk_vars>>

\* one chunk up to the processing: discover, filter by done_ids, apply the
\* global limit
DiscoverWeek ==
    /\ discover.pc = "week"
    /\ discover.week_idx <= Len(discover.remaining_chunks)
    /\ \E failing \in 0..2 :
          LET week == discover.remaining_chunks[discover.week_idx]
              matches == crawler_discover(week, failing)
          IN  IF matches.raised
              THEN discover' = [discover EXCEPT !.week_idx = @ + 1]
              ELSE LET fresh == SelectSeq(matches.results, LAMBDA id : id \notin discover.done_ids)
                       new_matches == ApplyLimit(fresh, discover.global_limit_remaining)
                   IN  discover' =
                          [discover EXCEPT
                             !.new_matches = new_matches,
                             !.global_limit_remaining =
                                 IF @ = NoLimit THEN @ ELSE @ - Len(new_matches),
                             !.j = 1,
                             !.pc = IF new_matches = <<>> THEN "mark" ELSE "process",
                             !.discovered = (week :> done_ids_of(fresh)) @@ @]
    /\ UNCHANGED <<week_ckpt, found, parse_vars, pair_vars, select_vars, enrich_vars, dup_vars, extract_vars, chunk_vars>>

\* _process_matches on one match: a record is written whether the
\* processing succeeded or every retry failed; after the last match the
\* ItemIDs join done_ids
DiscoverProcess ==
    /\ discover.pc = "process"
    /\ found' = Append(found, discover.new_matches[discover.j])
    /\ discover' =
          IF discover.j < Len(discover.new_matches)
          THEN [discover EXCEPT !.j = @ + 1]
          ELSE [discover EXCEPT !.pc = "mark",
                                !.done_ids = @ \cup done_ids_of(discover.new_matches)]
    /\ UNCHANGED <<week_ckpt, parse_vars, pair_vars, select_vars, enrich_vars, dup_vars, extract_vars, chunk_vars>>

\* Mark week as completed, save, and stop when the global limit is reached
DiscoverMark ==
    /\ discover.pc = "mark"
    /\ week_ckpt' = week_ckpt \cup {discover.remaining_chunks[discover.week_idx]}
    /\ discover' =
          IF discover.global_limit_remaining # NoLimit /\ discover.global_limit_remaining <= 0
          THEN [discover EXCEPT !.pc = "done"]
          ELSE [discover EXCEPT !.pc = "week", !.week_idx = @ + 1]
    /\ UNCHANGED <<found, parse_vars, pair_vars, select_vars, enrich_vars, dup_vars, extract_vars, chunk_vars>>

\* the chunks are exhausted
DiscoverComplete ==
    /\ discover.pc = "week"
    /\ discover.week_idx > Len(discover.remaining_chunks)
    /\ discover' = [discover EXCEPT !.pc = "done"]
    /\ UNCHANGED <<week_ckpt, found, parse_vars, pair_vars, select_vars, enrich_vars, dup_vars, extract_vars, chunk_vars>>

\* the process is interrupted
DiscoverKill ==
    /\ discover.pc \in {"week", "process", "mark"}
    /\ discover' = [discover EXCEPT !.pc = "killed"]
    /\ UNCHANGED <<week_ckpt, found, parse_vars, pair_vars, select_vars, enrich_vars, dup_vars, extract_vars, chunk_vars>>

NextDiscover ==
    \/ DiscoverStart
    \/ DiscoverWeek
    \/ DiscoverProcess
    \/ DiscoverMark
    \/ DiscoverComplete
    \/ DiscoverKill

\* up to MaxDiscoverRuns runs of the weekly discovery on the same files
SpecDiscover == InitDiscover /\ [][NextDiscover]_vars

\* C15 Weekly checkpoint: a chunk is in completed_weeks only when every new
\* document that was discovered in it has its record in the JSONL, so that
\* skipping the completed chunks leaves no discovered document unprocessed.
C15_WeeklyCheckpoint ==
    discover.pc # "idle" =>
       \A week \in week_ckpt :
          week \in DOMAIN discover.discovered =>
             discover.discovered[week] \subseteq done_ids_of(found)

\* ---- the open-node stack ----

\* the levels of the nodes of a stack, bottom first
StackLevels(st) == [k \in 1..Len(st.stack) |-> st.nodes[st.stack[k]].level]

\* C17 Stack invariant: from the set-up of parse on, in every profile, the
\* stack of open nodes is not empty, its bottom is the root, of level 0,
\* and the levels strictly increase from the bottom to the top, also after
\* a merge has pushed the existing sibling.
C17_StackInvariant ==
    history # <<>> =>
       /\ locals.stack # <<>>
       /\ locals.stack[1] = Root
       /\ locals.nodes[Root].level = 0
       /\ locals.nodes[Root].type = "document"
       /\ \A k \in 1..(Len(locals.stack) - 1) :
             StackLevels(locals)[k] < StackLevels(locals)[k + 1]

\* the last pass merged its candidate into a sibling below an open
\* chapter or section, and the sibling is the top of a stack of three
C17_Witness ==
    /\ trace # <<>>
    /\ trace[Len(trace)].kind = "merged"
    /\ Len(locals.stack) = 3
    /\ Top(locals.stack) = trace[Len(trace)].node
    /\ Len(Before(Len(trace)).stack) = 3

\* the locals after pass k
After(k) == history[k + 1]

\* the position in the stack of st of the open node nearest to the top
\* whose level is below level
NearestBelow(st, level) ==
    CHOOSE p \in 1..Len(st.stack) :
       /\ StackLevels(st)[p] < level
       /\ \A q \in (p + 1)..Len(st.stack) : StackLevels(st)[q] >= level

\* C18 Attach rule: a pass that makes a candidate of level L and does not
\* merge it appends the candidate, as a new node, to the children of the
\* nearest open node of a level below L, leaves no open node of level L or
\* more on the stack, and leaves the candidate on top of the stack above
\* that node.
C18_AttachRule ==
    \A n \in 1..Len(trace) :
       trace[n].kind = "created" =>
          LET level == trace[n].cand.level
              p == NearestBelow(Before(n), level)
              parent == Before(n).stack[p]
              id == trace[n].node
          IN  /\ \E q \in 1..Len(Before(n).stack) : StackLevels(Before(n))[q] < level
              /\ id \notin DOMAIN Before(n).nodes
              /\ After(n).nodes[id] = trace[n].cand
              /\ After(n).nodes[parent].children = Append(Before(n).nodes[parent].children, id)
              /\ \A other \in DOMAIN Before(n).nodes :
                    other # parent => After(n).nodes[other] = Before(n).nodes[other]
              /\ After(n).stack = Append(SubSeq(Before(n).stack, 1, p), id)
              /\ \A q \in 1..(Len(After(n).stack) - 1) : StackLevels(After(n))[q] < level

\* a candidate closed two open nodes and was attached to the root
C18_Witness ==
    \E n \in 1..Len(trace) :
       /\ trace[n].kind = "created"
       /\ Len(Before(n).stack) = 3
       /\ After(n).stack = <<Root, trace[n].node>>
       /\ InSeq(trace[n].node, After(n).nodes[Root].children)

\* the longer of two titles, the first on a tie
Longer(old, new) == IF Len(new) > Len(old) THEN new ELSE old

\* C19 Merge step: under the Hierarchical profile, a pass whose candidate
\* is a duplicate of the last child S of its chosen parent is a merge: no
\* node is added and no node but S changes, so the parent's children stay
\* as they were; S has the longer of the two titles, its old content
\* followed by the candidate's, its own html_id if it had one and the
\* candidate's otherwise; and S is the top of the stack, right above the
\* parent.  No other pass merges.
C19_MergeStep ==
    doc_type = "Hierarchical" =>
       \A n \in 1..Len(trace) :
          HasCandidate(n) =>
             LET cand == trace[n].cand
                 p == NearestBelow(Before(n), cand.level)
                 parent == Before(n).stack[p]
                 kids == Before(n).nodes[parent].children
                 S == kids[Len(kids)]
                 old == Before(n).nodes[S]
                 new == After(n).nodes[S]
             IN  IF kids # <<>> /\ IsDuplicate(old, cand)
                 THEN /\ trace[n].kind = "merged"
                      /\ trace[n].node = S
                      /\ DOMAIN After(n).nodes = DOMAIN Before(n).nodes
                      /\ \A other \in DOMAIN Before(n).nodes :
                            other # S => After(n).nodes[other] = Before(n).nodes[other]
                      /\ After(n).nodes[parent].children = kids
                      /\ new.title = Longer(old.title, cand.title)
                      /\ new.content = old.content \o cand.content
                      /\ new.html_id = IF old.html_id = NoAnchor THEN cand.html_id ELSE old.html_id
                      /\ new.children = old.children
                      /\ new.level = old.level /\ new.type = old.type
                      /\ After(n).stack = Append(SubSeq(Before(n).stack, 1, p), S)
                 ELSE trace[n].kind = "created"

\* a candidate with content was merged into a sibling with content
C19_Witness ==
    /\ doc_type = "Hierarchical"
    /\ \E n \in 1..Len(trace) :
          /\ trace[n].kind = "merged"
          /\ trace[n].cand.content # <<>>
          /\ Before(n).nodes[trace[n].node].content # <<>>
          /\ Len(After(n).nodes[trace[n].node].content) = 2
          /\ Top(After(n).stack) = trace[n].node

\* ---- _is_duplicate on its own ----

\* the longest tail a title is given
MaxTail == 2

\* what a title starts with: nothing, or "Dieu 1"
Stems == {<<>>, <<"DD", "i", "eef", "u", " ", "1">>}

\* the characters of the tails
TailChars == {"0", ".", " ", ":", "A"}

\* the sequences over S of length up to n
SeqsUpTo(S, n) == UNION {[1..k -> S] : k \in 0..n}

\* the titles _is_duplicate is given
DupTitles == {stem \o tail : stem \in Stems, tail \in SeqsUpTo(TailChars, MaxTail)}

\* the nodes _is_duplicate is given
DupNodes ==
    {LegalNode(4, "article", t, NoAnchor) : t \in DupTitles}
       \cup {LegalNode(5, "clause", t, NoAnchor) : t \in DupTitles}

InitDup ==
    /\ ParseIdle /\ PairIdle /\ SelectIdle /\ EnrichIdle /\ DiscoverIdle
    /\ ExtractIdle /\ ChunkIdle
    /\ \E a \in DupNodes, b \in DupNodes :
          /\ a.type = "article"
          /\ dup = [pc |-> "call", node1 |-> a, node2 |-> b,
                    verdict |-> FALSE, swapped |-> FALSE]

\* self._is_duplicate(node1, node2)
DupCall ==
    /\ dup.pc = "call"
    /\ dup' = [dup EXCEPT !.pc = "called", !.verdict = IsDuplicate(dup.node1, dup.node2)]
    /\ UNCHANGED <<parse_vars, pair_vars, select_vars, enrich_vars, discover_vars,
                   extract_vars, chunk_vars>>

\* self._is_duplicate(node2, node1)
DupCallSwapped ==
    /\ dup.pc = "called"
    /\ dup' = [dup EXCEPT !.pc = "swapped", !.swapped = IsDuplicate(dup.node2, dup.node1)]
    /\ UNCHANGED <<parse_vars, pair_vars, select_vars, enrich_vars, discover_vars,
                   extract_vars, chunk_vars>>

NextDup ==
    \/ DupCall
    \/ DupCallSwapped

\* _is_duplicate on a pair of nodes, and on the pair swapped
SpecDup == InitDup /\ [][NextDup]_vars

\* short is a prefix of long, and what follows it in long is one of the
\* delimiters '.', ' ', ':'
DelimitedPrefix(short, long) ==
    /\ Len(short) < Len(long)
    /\ \A k \in 1..Len(short) : long[k] = short[k]
    /\ long[Len(short) + 1] \in {".", " ", ":"}

\* "Dieu 1" and "Dieu 10"
Dieu1 == <<"DD", "i", "eef", "u", " ", "1">>
Dieu10 == <<"DD", "i", "eef", "u", " ", "1", "0">>

C21_ClosedNodesFrozen ==
    \A n \in 1..Len(trace) :
       \A id \in DOMAIN Before(n).nodes :
          ~InSeq(id, Before(n).stack) => After(n).nodes[id] = Before(n).nodes[id]

\* pass k made its candidate from a loose-numbered line: a clause whose
\* title is the number
LooseCandidate(k) ==
    /\ HasCandidate(k)
    /\ LineOf(k).loose.ok
    /\ trace[k].cand.type = "clause"
    /\ trace[k].cand.title = LineOf(k).loose.number

\* C22 Distinct headers are never merged: under the Hierarchical profile
\* two consecutive loose-numbered candidates with different numbers give
\* two nodes, each with its own number as title.
C22_DistinctHeaders ==
    doc_type = "Hierarchical" =>
       \A n \in 2..Len(trace) :
          (/\ LooseCandidate(n - 1) /\ LooseCandidate(n)
           /\ trace[n - 1].cand.title # trace[n].cand.title)
          => /\ trace[n].kind = "created"
             /\ trace[n].node # trace[n - 1].node
             /\ After(n).nodes[trace[n - 1].node].title = trace[n - 1].cand.title
             /\ After(n).nodes[trace[n].node].title = trace[n].cand.title

\* ---- the passes of the BODY phase ----

\* pass k started in the BODY phase
InBody(k) == ~Before(k).is_parsing_metadata /\ ~Before(k).is_parsing_appendices

\* C23 Plain content step: a BODY-phase pass that makes no node appends the
\* stripped line, once, as the last content line of the node on top of the
\* stack, and changes nothing else: not the stack, no other node, no
\* children list, no title, not the metadata lists, not the attachments.
C23_PlainContentStep ==
    \A n \in 1..Len(trace) :
       InBody(n) /\ trace[n].kind = "content" =>
          LET top == Top(Before(n).stack) IN
          /\ After(n).stack = Before(n).stack
          /\ After(n).nodes =
                [Before(n).nodes EXCEPT ![top].content = Append(@, Strip(LineOf(n).text))]
          /\ After(n).metadata = Before(n).metadata
          /\ After(n).attachments = Before(n).attachments

\* the line of pass k carries no structural anchor
NoStructuralAnchor(k) == LineOf(k).anchor_type = "None"

\* C24 Boldness gate: a BODY-phase line without structural anchor that
\* matches the part, chapter or section pattern and is not bold makes no
\* node of any type: the pass is a plain content pass.
C24_BoldnessGate ==
    \A n \in 1..Len(trace) :
       (/\ InBody(n)
        /\ trace[n].kind \in {"created", "merged", "content"}
        /\ NoStructuralAnchor(n)
        /\ LineOf(n).part \/ LineOf(n).chapter \/ LineOf(n).section
        /\ ~LineOf(n).is_bold)
       => /\ trace[n].kind = "content"
          /\ Len(After(n).nodes) = Len(Before(n).nodes)

\* pass k classified its line as an article
MadeArticle(k) == HasCandidate(k) /\ trace[k].cand.type = "article"

\* C25 Article strictness: a BODY-phase line "Dieu <n> ..." without anchor
\* is classified as an article under the Decision profile, bold or not, and
\* under the Hierarchical profile, which is given no document type that
\* could relax it, only when it is bold.
C25_ArticleStrictness ==
    \A n \in 1..Len(trace) :
       (/\ InBody(n)
        /\ trace[n].kind \in {"created", "merged", "content"}
        /\ LineOf(n).html_id = NoAnchor
        /\ LineOf(n).article)
       => /\ doc_type = "Decision" => MadeArticle(n)
          /\ doc_type = "Hierarchical" /\ ~LineOf(n).is_bold => ~MadeArticle(n)

\* ---- loose numbering ----

\* the line of pass k comes to the loose-numbering test of its profile and
\* matches it: no earlier test has classified it
LooseNumbered(k) ==
    /\ InBody(k)
    /\ trace[k].kind \in {"created", "merged", "content"}
    /\ LineOf(k).loose.ok
    /\ ~LineOf(k).article
    /\ doc_type = "Hierarchical" =>
          /\ NoStructuralAnchor(k)
          /\ ~(LineOf(k).is_bold /\ (LineOf(k).part \/ LineOf(k).chapter \/ LineOf(k).section))
    /\ doc_type = "Decision" => LineOf(k).anchor_type # "article"
    /\ doc_type = "Plan" => ~(LineOf(k).roman.ok /\ LineOf(k).is_bold)

\* the type of the node on top of the stack before pass k
TopType(k) == Before(k).nodes[Top(Before(k).stack)].type

\* the node a loose-numbered line makes: the number as title, the rest as
\* the one content line
NumberedNode(k, level, type) ==
    [level |-> level, type |-> type, title |-> LineOf(k).loose.number,
     content |-> <<LineOf(k).loose.content>>, children |-> <<>>, html_id |-> NoAnchor]

\* pass k added a new node under parent and left the stack as it was up to
\* parent, with the new node on top
AddedUnder(k, parent) ==
    /\ trace[k].kind = "created"
    /\ trace[k].node \notin DOMAIN Before(k).nodes
    /\ After(k).nodes[parent].children = Append(Before(k).nodes[parent].children, trace[k].node)
    /\ \E p \in 1..Len(Before(k).stack) :
          /\ Before(k).stack[p] = parent
          /\ After(k).stack = Append(SubSeq(Before(k).stack, 1, p), trace[k].node)

\* the position in the stack before pass k of the open clause nearest to
\* the top (0: no clause is open)
OpenClause(k) ==
    LET S == {p \in 1..Len(Before(k).stack) : Before(k).nodes[Before(k).stack[p]].type = "clause"}
    IN  IF S = {} THEN 0 ELSE CHOOSE p \in S : \A q \in S : q <= p

\* the line of pass k is a second rendering of the last child of the node
\* at position p of the stack: same number
SameHeaderAsLastChild(k, p) ==
    LET kids == Before(k).nodes[Before(k).stack[p]].children IN
    /\ kids # <<>>
    /\ Before(k).nodes[kids[Len(kids)]].type = "clause"
    /\ NormTitle(Before(k).nodes[kids[Len(kids)]].title) = NormTitle(LineOf(k).loose.number)

\* C26 Loose numbering under Hierarchical and Decision: a loose-numbered
\* BODY line makes a clause, with the number as title and the rest as
\* content, as a child of the article on top of the stack, or, when a clause
\* or a point is on top, as a child of the parent of the nearest open
\* clause, which it replaces on the stack; with any other top it makes no
\* node and is the last content line of the top.  (Under Hierarchical a
\* second rendering of the clause before it is merged instead.)
C26_LooseNumbering ==
    doc_type \in {"Hierarchical", "Decision"} =>
       \A n \in 1..Len(trace) :
          LooseNumbered(n) =>
             LET top == Top(Before(n).stack)
                 c == OpenClause(n)
             IN  IF TopType(n) = "article"
                 THEN \/ doc_type = "Hierarchical"
                         /\ SameHeaderAsLastChild(n, Len(Before(n).stack))
                      \/ /\ AddedUnder(n, top)
                         /\ After(n).nodes[trace[n].node] = NumberedNode(n, 5, "clause")
                 ELSE IF TopType(n) \in {"clause", "point"}
                 THEN c > 1 =>
                         \/ doc_type = "Hierarchical" /\ SameHeaderAsLastChild(n, c - 1)
                         \/ /\ AddedUnder(n, Before(n).stack[c - 1])
                            /\ After(n).nodes[trace[n].node] = NumberedNode(n, 5, "clause")
                 ELSE /\ trace[n].kind = "content"
                      /\ Len(After(n).nodes) = Len(Before(n).nodes)
                      /\ After(n).stack = Before(n).stack
                      /\ LET lines == After(n).nodes[top].content
                         IN  lines # <<>> /\ lines[Len(lines)] = LineOf(n).text

\* the number of the line of pass k has a dot in it ("1.1")
Dotted(k) == InSeq(".", LineOf(k).loose.number)

\* the position in the stack before pass k of the open item (0: none)
OpenItem(k) ==
    LET S == {p \in 1..Len(Before(k).stack) : Before(k).nodes[Before(k).stack[p]].type = "item"}
    IN  IF S = {} THEN 0 ELSE CHOOSE p \in S : \A q \in S : q <= p

\* C27 Loose numbering under Directive: whatever node is open, a
\* loose-numbered BODY line with an undotted number makes a new item of
\* level 4 under the document, and one with a dotted number makes a subitem
\* of level 5 under the open item when an item is open.
C27_DirectiveNumbering ==
    doc_type = "Directive" =>
       \A n \in 1..Len(trace) :
          LooseNumbered(n) =>
             IF ~Dotted(n)
             THEN /\ AddedUnder(n, Root)
                  /\ After(n).nodes[trace[n].node] = NumberedNode(n, 4, "item")
             ELSE OpenItem(n) > 0 =>
                     /\ AddedUnder(n, Before(n).stack[OpenItem(n)])
                     /\ After(n).nodes[trace[n].node] = NumberedNode(n, 5, "subitem")

\* ---- points ----

\* the line of pass k is a BODY-phase line that matches the point pattern
PointMarked(k) ==
    /\ InBody(k)
    /\ trace[k].kind \in {"created", "merged", "content"}
    /\ LineOf(k).point

\* no rule that its profile tries before the point pattern classifies the
\* line of pass k
NoEarlierRule(k) ==
    /\ ~LineOf(k).loose.ok
    /\ doc_type = "Hierarchical" =>
          /\ NoStructuralAnchor(k)
          /\ ~(LineOf(k).is_bold /\ (LineOf(k).part \/ LineOf(k).chapter \/ LineOf(k).section))
          /\ ~LineOf(k).article
    /\ doc_type = "Decision" => LineOf(k).anchor_type # "article" /\ ~LineOf(k).article
    /\ doc_type = "Plan" => ~(LineOf(k).roman.ok /\ LineOf(k).is_bold)

\* the types the claim allows for the parent of a point
PointParents == {"clause", "item", "subitem"}

\* the parent of every point of the tree is of a type in types
PointsUnder(st, types) ==
    \A p \in DOMAIN st.nodes :
       \A c \in DOMAIN st.nodes[p].children :
          st.nodes[st.nodes[p].children[c]].type = "point" => st.nodes[p].type \in types

NearestNonPoint(k) ==
    CHOOSE p \in 1..Len(Before(k).stack) :
       /\ Before(k).nodes[Before(k).stack[p]].type # "point"
       /\ \A q \in (p + 1)..Len(Before(k).stack) :
             Before(k).nodes[Before(k).stack[q]].type = "point"

Phase(st) ==
    IF st.is_parsing_metadata THEN "METADATA"
    ELSE IF st.is_parsing_appendices THEN "APPENDIX"
    ELSE "BODY"

\* the line of pass k is shorter than 100 characters, or bold
ShortOrBold(k) == Len(LineOf(k).text) < ShortLine \/ LineOf(k).is_bold

\* C29 Signature trigger: a line that matches the signature pattern and is
\* short (under 100 characters) or bold puts the parser into the METADATA
\* phase and is appended to signers; one that is neither short nor bold
\* leaves, in every phase, the phase and both metadata lists as they were.
C29_SignatureTrigger ==
    history # <<>> =>
       \A n \in 1..Len(trace) :
          LineOf(n).signature /\ ~LineOf(n).recipients =>
             IF ShortOrBold(n)
             THEN /\ Phase(After(n)) = "METADATA"
                  /\ After(n).metadata.signers
                        = Append(Before(n).metadata.signers, LineOf(n).text)
                  /\ After(n).metadata.recipients = Before(n).metadata.recipients
             ELSE /\ Phase(After(n)) = Phase(Before(n))
                  /\ After(n).metadata = Before(n).metadata

\* ---- leaving the METADATA phase ----

\* the line of pass k carries a structural anchor, or is a header by the
\* patterns of its profile
HeaderLine(k) ==
    \/ LineOf(k).anchor_type # "None"
    \/ doc_type = "Hierarchical"
          /\ (LineOf(k).part \/ LineOf(k).chapter \/ LineOf(k).section \/ LineOf(k).article)
    \/ doc_type = "Decision" /\ LineOf(k).article
    \/ doc_type = "Plan" /\ LineOf(k).roman.ok /\ LineOf(k).is_bold

\* pass k met, in the METADATA phase, a line that is no recipients marker
\* and no signature
MetFooter(k) ==
    /\ Before(k).is_parsing_metadata
    /\ trace[k].kind # "skip"
    /\ ~LineOf(k).recipients
    /\ ~(LineOf(k).signature /\ ShortOrBold(k))

\* C30 Leaving METADATA: in every profile a line met in the METADATA phase
\* that carries a structural anchor or is a header ends the phase and is
\* processed as a BODY line: it makes its node in the tree, is merged, or is
\* appended to the open node, and neither the metadata lists nor the
\* attachments change.
C30_LeavingMetadata ==
    history # <<>> =>
       \A n \in 1..Len(trace) :
          MetFooter(n) /\ HeaderLine(n) =>
             /\ ~After(n).is_parsing_metadata
             /\ trace[n].kind \in {"created", "merged", "content"}
             /\ After(n).metadata = Before(n).metadata
             /\ After(n).attachments = Before(n).attachments

\* ---- absorbing phases ----

\* the longest continuation of input lines that is tried
MaxContinuation == 3

\* the pass with outcome out made a header node (part, chapter, section,
\* article or item) in the main tree
MadeHeader(out) == out.kind = "created" /\ out.cand.level \in 1..4

\* there are at most depth further lines of the catalogue after which, from
\* the locals st, a header line makes a node in the main tree
RECURSIVE HeaderAgain(_, _)
HeaderAgain(st, depth) ==
    /\ depth > 0
    /\ \E i \in DOMAIN Lines :
          LET out == ProcessLine(doc_type, st, Lines[i]) IN
          /\ ~out.raised
          /\ MadeHeader(out) \/ HeaderAgain(out.st, depth - 1)

\* C31 No absorbing phase: in every parser, whatever phase the loop is in
\* (BODY, METADATA, APPENDIX), some continuation of input lines ends with a
\* header line that makes a node in the main tree.
C31_NoAbsorbingPhase ==
    pc = "loop" => HeaderAgain(locals, MaxContinuation)

\* C32 Phase exclusivity: HierarchicalParser is in one phase at a time: the
\* flags is_parsing_metadata and is_parsing_appendices are never both set.
C32_PhaseExclusivity ==
    doc_type = "Hierarchical" /\ pc \in {"loop", "done"} =>
       \A k \in 1..Len(history) :
          ~(history[k].is_parsing_metadata /\ history[k].is_parsing_appendices)

\* ---- the APPENDIX phase ----

\* pass k opened an attachment entry
OpenedAttachment(k) == Len(After(k).attachments) > Len(Before(k).attachments)

\* C33 Appendix trigger: a line opens an attachment entry and starts the
\* APPENDIX phase only if it matches the appendix pattern, is bold or short
\* and is no reference line; an appendix-pattern line that is a reference
\* line opens no attachment.
C33_AppendixTrigger ==
    history # <<>> =>
       \A n \in 1..Len(trace) :
          /\ (OpenedAttachment(n)
                 \/ (After(n).is_parsing_appendices /\ ~Before(n).is_parsing_appendices))
             => /\ LineOf(n).appendix
                /\ ShortOrBold(n)
                /\ ~is_reference_line(LineOf(n).text)
          /\ LineOf(n).appendix /\ is_reference_line(LineOf(n).text)
             => ~OpenedAttachment(n)

\* pass k met a line in the APPENDIX phase
InAppendix(k) == Phase(Before(k)) = "APPENDIX" /\ trace[k].kind # "skip"

\* the line of pass k is an appendix header: the pattern, and bold or short
AppendixHeader(k) == LineOf(k).appendix /\ ShortOrBold(k)

\* C34 While in APPENDIX: an appendix-header line opens one more attachment
\* entry, a recipients or signature line switches to METADATA, every other
\* line becomes the last content line of the most recent attachment; the
\* attachments are never empty in this phase, and nodes and stack stay as
\* they are.
C34_WhileInAppendix ==
    history # <<>> =>
       /\ \A k \in 1..Len(history) :
             Phase(history[k]) = "APPENDIX" => history[k].attachments # <<>>
       /\ \A n \in 1..Len(trace) :
             InAppendix(n) =>
                LET last == Len(Before(n).attachments) IN
                /\ After(n).nodes = Before(n).nodes
                /\ After(n).stack = Before(n).stack
                /\ IF LineOf(n).recipients \/ LineOf(n).signature
                   THEN /\ Phase(After(n)) = "METADATA"
                        /\ After(n).attachments = Before(n).attachments
                   ELSE IF AppendixHeader(n)
                   THEN /\ Phase(After(n)) = "APPENDIX"
                        /\ After(n).attachments
                              = Append(Before(n).attachments,
                                       [title |-> LineOf(n).text, content |-> <<>>])
                        /\ After(n).metadata = Before(n).metadata
                   ELSE /\ Phase(After(n)) = "APPENDIX"
                        /\ After(n).attachments
                              = [Before(n).attachments EXCEPT
                                    ![last].content = Append(@, LineOf(n).text)]
                        /\ After(n).metadata = Before(n).metadata

\* in the APPENDIX phase a line became content of the attachment and the
\* next one, a signature line that is neither short nor bold, switched to
\* METADATA
C34_Witness ==
    \E n \in 3..Len(trace) :
       /\ InAppendix(n - 1)
       /\ trace[n - 1].kind = "appendix_content"
       /\ InAppendix(n)
       /\ LineOf(n).signature /\ ~ShortOrBold(n)
       /\ Phase(After(n)) = "METADATA"

\* ---- the recipients marker inside a line ----

\* the position of the recipients marker in the text, 0 if it has none
MarkerAt(text) ==
    LET s == Lower(text)
        hits == {i \in 1..Len(s) :
                    /\ OccursAt(s, i, kw_noi_nhan)
                    /\ i + Len(kw_noi_nhan) <= Len(s)
                    /\ s[i + Len(kw_noi_nhan)] = ":"}
    IN  IF hits = {} THEN 0 ELSE CHOOSE i \in hits : \A j \in hits : i <= j

\* the line of pass k has body text and then the recipients marker
MidLineMarker(k) ==
    /\ MarkerAt(LineOf(k).text) > 1
    /\ Strip(SubSeq(LineOf(k).text, 1, MarkerAt(LineOf(k).text) - 1)) # <<>>

\* the body text before the marker, and the rest from the marker on
BeforeMarker(k) == Strip(SubSeq(LineOf(k).text, 1, MarkerAt(LineOf(k).text) - 1))
FromMarker(k) == SubSeq(LineOf(k).text, MarkerAt(LineOf(k).text), Len(LineOf(k).text))

\* C35 Mid-line recipients: a BODY-phase line with body text and then the
\* recipients marker leaves the body text as the last content line of the
\* open node, the rest from the marker on as the last entry of a metadata
\* list, and the parser in the METADATA phase.
C35_MidLineRecipients ==
    history # <<>> =>
       \A n \in 1..Len(trace) :
          InBody(n) /\ MidLineMarker(n) =>
             LET open == Top(Before(n).stack) IN
             /\ Phase(After(n)) = "METADATA"
             /\ After(n).nodes[open].content
                   = Append(Before(n).nodes[open].content, BeforeMarker(n))
             /\ \/ After(n).metadata.recipients
                      = Append(Before(n).metadata.recipients, FromMarker(n))
                \/ After(n).metadata.signers
                      = Append(Before(n).metadata.signers, FromMarker(n))

\* ---- anchored lines ----

\* C36 Anchored lines always reach the tree: in HierarchicalParser a line
\* that carries a structural anchor makes a node in the main tree (or is
\* merged into the node it repeats), whatever the phase, and changes neither
\* metadata list nor the attachments.
C36_AnchoredLines ==
    doc_type = "Hierarchical" /\ history # <<>> =>
       \A n \in 1..Len(trace) :
          LineOf(n).anchor_type # "None" /\ trace[n].kind # "skip" =>
             /\ HasCandidate(n)
             /\ trace[n].cand.type = LineOf(n).anchor_type
             /\ After(n).metadata = Before(n).metadata
             /\ After(n).attachments = Before(n).attachments

\* ---- text conservation ----

\* the places of the locals st that hold the text x: content lines of
\* nodes, entries of the metadata lists, titles and content lines of
\* attachments
PlacesOf(st, x) ==
    UNION {{<<"content", id, i>> : i \in {j \in DOMAIN st.nodes[id].content :
                                              st.nodes[id].content[j] = x}} :
              id \in DOMAIN st.nodes}
    \cup {<<"recipients", 0, i>> : i \in {j \in DOMAIN st.metadata.recipients :
                                             st.metadata.recipients[j] = x}}
    \cup {<<"signers", 0, i>> : i \in {j \in DOMAIN st.metadata.signers :
                                          st.metadata.signers[j] = x}}
    \cup {<<"attachment", a, 0>> : a \in {b \in DOMAIN st.attachments :
                                             st.attachments[b].title = x}}
    \cup UNION {{<<"attachment", a, i>> : i \in {j \in DOMAIN st.attachments[a].content :
                                                    st.attachments[a].content[j] = x}} :
                   a \in DOMAIN st.attachments}

\* C37 Text conservation: in every profile each non-empty line is recorded
\* in exactly one place: it makes (or is merged into) a node, or it is added
\* once as a content line of a node, an entry of metadata.recipients or
\* metadata.signers, or the title or a content line of an attachment; no
\* line is dropped.
C37_TextConservation ==
    history # <<>> =>
       \A n \in 1..Len(trace) :
          trace[n].kind # "skip" =>
             \/ HasCandidate(n)
             \/ Cardinality(PlacesOf(After(n), LineOf(n).text))
                   = Cardinality(PlacesOf(Before(n), LineOf(n).text)) + 1

\* ---- the extraction of the lines (find_all and get_text) ----

\* the most elements in the content container
MaxElements == 3

\* the tags of the elements of a page
DomTags == {"p", "div", "span", "td"}

\* the text that element i may hold before its children
Letters == <<"a", "b", "c", "d">>

\* the tags given to content_div.find_all by the parser of a profile
SelectedTags(profile) ==
    IF profile = "Hierarchical"
    THEN {"p", "div", "h3", "h4", "h5", "table", "span"}
    ELSE {"p", "div", "h3", "h4", "h5"}

\* element i of the container d and the elements around it, innermost first
RECURSIVE AncestorsOrSelf(_, _)
AncestorsOrSelf(d, i) ==
    IF i = 0 THEN {} ELSE {i} \cup AncestorsOrSelf(d, d[i].parent)

\* the parents of n elements in document order (0: the container itself):
\* an element lies in the container or in an element still open before it
Shapes(n) ==
    {par \in [1..n -> 0..(n - 1)] :
        LET d == [i \in 1..n |-> [parent |-> par[i]]]
        IN  /\ par[1] = 0
            /\ \A i \in 2..n : par[i] \in {0} \cup AncestorsOrSelf(d, i - 1)}

\* the container whose elements have the parents par and the tags tg, and
\* whose elements in has hold text of their own
Dom(par, tg, has) ==
    [i \in DOMAIN par |->
        [tag |-> tg[i], parent |-> par[i],
         text |-> IF i \in has THEN <<Letters[i]>> ELSE <<>>]]

\* the strings of s, joined by a space
RECURSIVE JoinSpace(_)
JoinSpace(s) ==
    IF s = <<>> THEN <<>>
    ELSE IF Len(s) = 1 THEN s[1]
    ELSE s[1] \o <<" ">> \o JoinSpace(Tail(s))

\* el.get_text(separator=" ", strip=True): the non-empty strings of the
\* element and of everything inside it, in document order
get_text(d, i) ==
    LET inside == SelectSeq([j \in 1..Len(d) |-> j], LAMBDA j : i \in AncestorsOrSelf(d, j))
        strings == [k \in 1..Len(inside) |-> Strip(d[inside[k]].text)]
    IN  JoinSpace(SelectSeq(strings, LAMBDA x : x # <<>>))

\* content_div.find_all(tags): every element inside the container, at any
\* depth, whose tag is one of tags, in document order
find_all(d, tags) == SelectSeq([j \in 1..Len(d) |-> j], LAMBDA j : d[j].tag \in tags)

InitExtract ==
    /\ ParseIdle /\ PairIdle /\ SelectIdle /\ EnrichIdle /\ DiscoverIdle /\ DupIdle
    /\ ChunkIdle
    /\ \E n \in 1..MaxElements, profile \in Profiles :
       \E par \in Shapes(n), tg \in [1..n -> DomTags], has \in SUBSET (1..n) :
          LET d == Dom(par, tg, has)
          IN  extraction = [pc |-> "loop", profile |-> profile, container |-> d,
                            elements |-> find_all(d, SelectedTags(profile)),
                            k |-> 1, lines |-> <<>>]

\* one pass of `for el in elements` up to the text of the line
ExtractElement ==
    /\ extraction # <<>>
    /\ extraction.pc = "loop"
    /\ extraction.k <= Len(extraction.elements)
    /\ LET el == extraction.elements[extraction.k]
           text == clean_text(get_text(extraction.container, el))
       IN  extraction' =
              [extraction EXCEPT
                  !.k = @ + 1,
                  !.lines = IF SkipElement(text) THEN @
                            ELSE Append(@, [el |-> el, text |-> text])]
    /\ UNCHANGED <<parse_vars, pair_vars, select_vars, enrich_vars, discover_vars,
                   dup_vars, chunk_vars>>

\* the elements are exhausted
ExtractEnd ==
    /\ extraction # <<>>
    /\ extraction.pc = "loop"
    /\ extraction.k > Len(extraction.elements)
    /\ extraction' = [extraction EXCEPT !.pc = "done"]
    /\ UNCHANGED <<parse_vars, pair_vars, select_vars, enrich_vars, discover_vars,
                   dup_vars, chunk_vars>>

NextExtract ==
    \/ ExtractElement
    \/ ExtractEnd

\* the lines a parser makes of one content container
SpecExtract == InitExtract /\ [][NextExtract]_vars

\* the lines so far that hold the text of element i
LinesWith(i) ==
    {k \in DOMAIN extraction.lines :
        Contains(extraction.lines[k].text, extraction.container[i].text)}

\* C38 No double emission: the text of an element of the content container
\* is in at most one line, also when a selected element lies inside another
\* selected element.
C38_NoDoubleEmission ==
    extraction # <<>> =>
       \A i \in DOMAIN extraction.container :
          extraction.container[i].text # <<>> => Cardinality(LinesWith(i)) <= 1

\* ---- generate_weekly_chunks ----
\* A date is the number of its day; timedelta(days=n) is n.

\* the last day a range may start or end on
MaxDay == 5

\* the values of --chunk-days (type=int, no lower bound)
ChunkDayChoices == {-1, 0, 1, 2, 3}

\* the most chunks the loop is followed for
MaxChunks == MaxDay + 1

\* chunk_end as it would be without the min: the last chunk runs on past
\* to_date
ChunkEndNoMin(cursor, chunk_days, end) == cursor + chunk_days - 1

\* min(cursor + timedelta(days=chunk_days - 1), end)
ChunkEnd(cursor, chunk_days, end) ==
    IF cursor + chunk_days - 1 < end THEN cursor + chunk_days - 1 ELSE end

\* generate_weekly_chunks up to its loop
InitChunk ==
    /\ ParseIdle /\ PairIdle /\ SelectIdle /\ EnrichIdle /\ DiscoverIdle /\ DupIdle
    /\ ExtractIdle
    /\ \E start \in 1..MaxDay, end \in 1..MaxDay, chunk_days \in ChunkDayChoices :
          chunking = [pc |-> "loop", start |-> start, end |-> end,
                      chunk_days |-> chunk_days, cursor |-> start, chunks |-> <<>>]

\* one pass of `while cursor <= end`
ChunkIteration ==
    /\ chunking # <<>>
    /\ chunking.pc = "loop"
    /\ chunking.cursor <= chunking.end
    /\ Len(chunking.chunks) < MaxChunks
    /\ LET chunk_end == ChunkEnd(chunking.cursor, chunking.chunk_days, chunking.end)
       IN  chunking' = [chunking EXCEPT
                           !.chunks = Append(@, <<chunking.cursor, chunk_end>>),
                           !.cursor = chunk_end + 1]
    /\ UNCHANGED <<parse_vars, pair_vars, select_vars, enrich_vars, discover_vars,
                   dup_vars, extract_vars>>

\* return chunks
ChunkReturn ==
    /\ chunking # <<>>
    /\ chunking.pc = "loop"
    /\ ~(chunking.cursor <= chunking.end)
    /\ chunking' = [chunking EXCEPT !.pc = "done"]
    /\ UNCHANGED <<parse_vars, pair_vars, select_vars, enrich_vars, discover_vars,
                   dup_vars, extract_vars>>

NextChunk ==
    \/ ChunkIteration
    \/ ChunkReturn

\* one call of generate_weekly_chunks
SpecChunk == InitChunk /\ [][NextChunk]_vars

\* the days of chunk c
DaysOf(c) == c[1]..c[2]

C40_ChunkingTerminates ==
    [][ChunkIteration => chunking'.cursor > chunking.cursor]_vars
====
